---------------------------- MODULE Spec2Model ----------------------------
(***************************************************************************)
(* Sailing-vessel simulation core of the pirate game: rudder, sails, wind  *)
(* propulsion, drag and cannon turret aiming.                              *)
(*                                                                         *)
(* The program computes in IEEE doubles; the model computes in integers,   *)
(* each quantity in a fixed unit named where it is introduced:             *)
(*   cannon angles     1 unit = 0.0025 rad  (rotationSpeed 0.005 rad = 2)  *)
(*   rudder angle      1 unit = 0.05 degree (30 degrees = 600)             *)
(*   sail trim angle   1 unit = 1.25 degree (one rotateSails step; 75 = 60)*)
(*   headings, wind    1 unit = 1.25 degree (a full turn = 288)            *)
(*   velocity          1 unit = 0.001 px/tick                              *)
(*   momentum          1 unit = 0.01                                       *)
(*   efficiency        1 unit = 1/7200                                     *)
(*   drag factors      1 unit = 1/10000                                    *)
(*   wind power        1 unit = 0.1                                        *)
(*   force             1 unit = 1e-6                                       *)
(*   deck coordinates  1 unit = 0.04 px (1/25 px)                          *)
(*   world wind power  1 unit = 0.001                                      *)
(* In the deck specification body.angle is held as its exact cosine and    *)
(* sine in fifths, [c, s] with c * c + s * s = 25, so that rotations are   *)
(* exact.                                                                  *)
(***************************************************************************)
EXTENDS Integers, FiniteSets, Sequences, TLC

VARIABLES
    cannons,        \* Ship.cannons: id -> CannonModule record
    now,            \* Date.now(), in units of 500 ms
    sails,          \* Ship.sails: id -> SailModule record
    rudderAngle,    \* Ship.rudderAngle
    wheelAngle,     \* WheelModule.wheelAngle of the first wheel
    momentum,       \* Ship.momentum
    turningForce,   \* Ship.turningForce
    torqueApplied,  \* whether the last applyRudder called setAngularVelocity
    velocity,       \* body.velocity, [x, y]
    heading,        \* body.angle
    isRotatingSails,    \* Ship.isRotatingSails
    sailRotationTimer,  \* Ship.sailRotationTimer
    currentWindDirection, \* Ship.currentWindDirection
    currentWindPower,     \* Ship.currentWindPower
    forwardForce,   \* Ship.forwardForce
    appliedForce,   \* the vector the last applyWindForce gave Matter.Body.applyForce
    lastSailEfficiency, \* the value calculateSailEfficiency returned to applyWindForce
    sailReadings,   \* per open sail, angleDiffDegrees and efficiency of that call
    position,       \* Ship.position
    modules,        \* Ship.modules: id -> [type, position]
    moduleVisualPositions,  \* Ship.moduleVisualPositions: id -> point
    deckQuery,      \* the last coordinate or deck query: its arguments and results
    cannonballs,    \* Game.cannonballs, oldest first
    fireResult,     \* the last firing call and, for CannonModule.fire, what it returned
    worldWindDirection, \* WorldManager.windDirection
    worldWindPower,     \* WorldManager.windPower
    player,         \* Game.player: position, and whether on the ship and at its wheel
    callOrder,      \* the calls the last Game.update made, in order
    shipGame        \* Ship.game

vars == << cannons, now, sails, rudderAngle, wheelAngle, momentum, turningForce,
           torqueApplied, velocity, heading, isRotatingSails, sailRotationTimer,
           currentWindDirection, currentWindPower, forwardForce, appliedForce,
           lastSailEfficiency, sailReadings, position, modules,
           moduleVisualPositions, deckQuery, cannonballs, fireResult,
           worldWindDirection, worldWindPower, player, callOrder, shipGame >>

cannonVars == << cannons, now >>
sailVars == << sails, isRotatingSails, sailRotationTimer >>
rudderVars == << rudderAngle, wheelAngle, momentum, turningForce, torqueApplied >>
windVars == << currentWindDirection, currentWindPower, forwardForce, appliedForce,
               lastSailEfficiency, sailReadings >>
bodyVars == << velocity, heading >>
deckVars == << position, modules, moduleVisualPositions, deckQuery >>
fireVars == << cannonballs, fireResult >>
worldVars == << worldWindDirection, worldWindPower >>
gameVars == << player, callOrder, shipGame >>

---------------------------------------------------------------------------
(* Arithmetic helpers (Math.abs, Math.min, Math.max).                      *)

Abs(x) == IF x < 0 THEN -x ELSE x
Min(a, b) == IF a < b THEN a ELSE b
Max(a, b) == IF a > b THEN a ELSE b

\* ceil(a / b) for a >= 0, b > 0
CeilDiv(a, b) == (a + b - 1) \div b

\* a * b / c truncated toward zero, as a double product rounds toward the
\* nearer representable value without changing sign
MulDiv(a, b, c) == IF a * b >= 0 THEN (a * b) \div c ELSE -(((-a) * b) \div c)

---------------------------------------------------------------------------
(* CannonModule                                                            *)

\* Math.PI / 4 in cannon angle units (0.7854 rad / 0.0025 rad)
validAngleRange == 314
Pi == 4 * validAngleRange
TwoPi == 2 * Pi

\* CannonModule.rotationSpeed = 0.005 rad per frame
rotationSpeed == 2

\* CannonModule.reloadTime = 2000 ms
reloadTime == 4

\* while (a > Math.PI) a -= 2*Math.PI; while (a < -Math.PI) a += 2*Math.PI
RECURSIVE NormPi(_)
NormPi(a) ==
    IF a > Pi THEN NormPi(a - TwoPi)
    ELSE IF a < -Pi THEN NormPi(a + TwoPi)
    ELSE a

\* while (a < 0) a += 2*Math.PI; while (a >= 2*Math.PI) a -= 2*Math.PI
RECURSIVE Norm2Pi(_)
Norm2Pi(a) ==
    IF a < 0 THEN Norm2Pi(a + TwoPi)
    ELSE IF a >= TwoPi THEN Norm2Pi(a - TwoPi)
    ELSE a

\* A mutant of AngleDiff: the raw difference, without the wrap to [-pi, pi].
AngleDiffNoWrap(target, turret) == target - turret

\* angleDiff / newAngleDiff of CannonModule.update
AngleDiff(target, turret) == NormPi(target - turret)

\* The turret half of CannonModule.update: the new turretAngle.
TurretStep(turret, target) ==
    IF turret = target THEN turret
    ELSE LET angleDiff == AngleDiff(target, turret)
             direction == IF angleDiff > 0 THEN 1 ELSE -1
             moved == Norm2Pi(turret + rotationSpeed * direction)
             newAngleDiff == AngleDiff(target, moved)
         IN  IF Abs(newAngleDiff) < rotationSpeed
                \/ ((angleDiff > 0) # (newAngleDiff > 0))
             THEN target
             ELSE moved

\* new CannonModule(position, rotation), then setGame as Ship.addModule
\* calls it on a ship that has its game: the cannon holds a reference with
\* addCannonball
NewCannon(rotation) ==
    [ rotation |-> rotation, turretAngle |-> 0, targetTurretAngle |-> 0,
      isLoaded |-> TRUE, lastFiredTime |-> 0, game |-> "game" ]

\* A mutant of CannonUpdated: the cannon is reloaded whatever the time.
CannonUpdatedNoCooldown(c, t) ==
    [ c EXCEPT !.isLoaded = TRUE,
               !.turretAngle = TurretStep(c.turretAngle, c.targetTurretAngle) ]

\* CannonModule.update
CannonUpdated(c, t) ==
    [ c EXCEPT !.isLoaded = IF ~c.isLoaded /\ t - c.lastFiredTime > reloadTime
                            THEN TRUE ELSE c.isLoaded,
               !.turretAngle = TurretStep(c.turretAngle, c.targetTurretAngle) ]

\* CannonModule.setGame(ref): a ship that has a game with addCannonball
\* stands for that game; anything else, null included, is stored as it is
GameStored(ref) == IF ref = "shipWithGame" THEN "game" ELSE ref

\* What a cannon stores on setGame(ship): the ship's game when the ship has
\* one with addCannonball, else the ship itself
GameFromShip(sg) == GameStored(IF sg = "game" THEN "shipWithGame" ELSE "ship")

\* A mutant of CannonFired: the loaded flag is not looked at.
CannonFiredUnchecked(c, t) == [ c EXCEPT !.isLoaded = FALSE, !.lastFiredTime = t ]

\* The cannon after CannonModule.fire at time t: untouched when not loaded;
\* otherwise marked fired before the game reference is looked at
CannonFired(c, t) ==
    IF ~c.isLoaded THEN c
    ELSE [ c EXCEPT !.isLoaded = FALSE, !.lastFiredTime = t ]

\* CannonModule.fire returns true, having called game.addCannonball: the
\* cannon was loaded and its game reference has that method (a Game has,
\* a Ship has not)
FireReturns(c) == c.isLoaded /\ c.game = "game"

\* let finalSpeed = 10, in thousandths of a pixel per tick
baseCannonballSpeed == 10000

\* The clamp of CannonModule.aimAt
ClampAim(targetAngle) ==
    IF targetAngle > validAngleRange THEN validAngleRange
    ELSE IF targetAngle < -validAngleRange THEN -validAngleRange
    ELSE targetAngle

\* CannonModule.aimAt; bearing is Math.atan2(dy, dx), any value in [-pi, pi]
CannonAimed(c, bearing) ==
    [ c EXCEPT !.targetTurretAngle =
                   ClampAim(NormPi(bearing + Pi \div 2 + c.rotation)) ]

\* CannonModule.resetAim
CannonReset(c) == [ c EXCEPT !.targetTurretAngle = 0, !.turretAngle = 0 ]

\* CannonModule.setTurretAngle
CannonSet(c, angle) == [ c EXCEPT !.turretAngle = angle, !.targetTurretAngle = angle ]


---------------------------------------------------------------------------
(* SailModule                                                              *)

\* The trim limit of SailModule.rotate: 75 degrees, in 1.25 degree units
maxSailAngle == 60

\* rotationRate of Ship.rotateSails: 1.25 degrees per call
sailRotationRate == 1

\* The increment Ship.openSails / closeSails pass: 10 percent
sailIncrement == 10

\* sailRotationTimer set by Ship.rotateSails
sailRotationTicks == 10

\* A mutant of SailSetOpenness: the percentage is stored as given.
SailSetOpennessNoClamp(s, percent) == [ s EXCEPT !.openness = percent ]

\* SailModule.setOpenness
SailSetOpenness(s, percent) == [ s EXCEPT !.openness = Max(0, Min(100, percent)) ]

\* SailModule.open
SailOpen(s, increment) == SailSetOpenness(s, s.openness + increment)

\* SailModule.close
SailClose(s, increment) == SailSetOpenness(s, s.openness - increment)

\* SailModule.rotate
SailRotate(s, degrees) ==
    [ s EXCEPT !.angle = Max(-maxSailAngle, Min(maxSailAngle, s.angle + degrees)) ]

\* SailModule.centerAngle
SailCenterAngle(s, increment) ==
    IF s.angle > 0 THEN [ s EXCEPT !.angle = Max(0, s.angle - increment) ]
    ELSE IF s.angle < 0 THEN [ s EXCEPT !.angle = Min(0, s.angle + increment) ]
    ELSE s

---------------------------------------------------------------------------
(* Ship: rudder                                                            *)

\* currentSpeed of applyRudder: Math.sqrt(vx ** 2 + vy ** 2) rounded down to
\* the velocity unit; the root lies between the larger component and the sum
Speed(v) ==
    LET a == Max(Abs(v.x), Abs(v.y))
        b == Min(Abs(v.x), Abs(v.y))
        n == a * a + b * b
    IN  IF b = 0 THEN a
        ELSE CHOOSE r \in a..(a + b) : r * r <= n /\ (r + 1) * (r + 1) > n

\* The rudder limit: 30 degrees, in 0.05 degree units
maxRudder == 600

\* baseRudderChangeRate * 0.5: 0.25 degrees, the rate at speed 0
baseRudderRate == 5

\* baseRudderChangeRate * 0.7: 0.35 degrees, the most speed adds to the rate
maxRudderRateBonus == 7

\* rudderChangeRate = 0.5 * (0.5 + min(0.7, currentSpeed / 3)), in 0.05 degree
\* units: 5 + min(7, speed / 300)
RudderChangeRate(speed) == baseRudderRate + Min(maxRudderRateBonus, speed \div 300)

\* A mutant of RudderLeft: the lower limit is not applied.
RudderLeftNoClamp(r, rate) == r - rate

\* case 'left'
RudderLeft(r, rate) == Max(-maxRudder, r - rate)

\* A mutant of RudderRight: the upper limit is not applied.
RudderRightNoClamp(r, rate) == r + rate

\* case 'right'
RudderRight(r, rate) == Min(maxRudder, r + rate)

\* case 'center'
RudderCenter(r, rate) ==
    IF r > 0 THEN Max(0, r - rate)
    ELSE IF r < 0 THEN Min(0, r + rate)
    ELSE r

RudderMoved(r, direction, rate) ==
    CASE direction = "left" -> RudderLeft(r, rate)
      [] direction = "right" -> RudderRight(r, rate)
      [] direction = "center" -> RudderCenter(r, rate)

\* this.momentum = Math.min(1.0, this.momentum * 0.95 + currentSpeed * 0.01)
MomentumAfter(m, speed) == Min(100, (m * 95) \div 100 + speed \div 1000)

\* WheelModule.setWheelAngle, in rudder units
WheelAngleSet(degrees) == Max(-maxRudder, Min(maxRudder, degrees))

OpenSailIds(ss) == { id \in DOMAIN ss : ss[id].openness > 0 }

RECURSIVE SumOver(_, _, _)
SumOver(ss, ids, field) ==
    IF ids = {} THEN 0
    ELSE LET id == CHOOSE i \in ids : TRUE
         IN  ss[id][field] + SumOver(ss, ids \ {id}, field)

\* speedFactor of applyRudder, in thousandths
SpeedFactor(speed) ==
    LET speedDiff == Abs(speed - 2000)
    IN  Max(250, Min(1000, 1000 - (speedDiff * speedDiff) \div 9000))

\* momentumResistance of applyRudder, in thousandths
MomentumResistance(m) == Max(400, 1000 - 6 * m)

\* sailFactor of applyRudder, in thousandths: 0.35 + 0.65 * avgSailPower
SailFactor(ss) ==
    LET open == OpenSailIds(ss)
    IN  IF open = {} THEN 350
        ELSE 350 + (650 * SumOver(ss, open, "openness")) \div (Cardinality(open) * 100)

\* this.turningForce, in units of 1e-9:
\* rudderAngle * 0.000015 * speedFactor * momentumResistance * sailFactor
TurningForce(r, speed, m, ss) ==
    LET turnEffectiveness == (SpeedFactor(speed) * MomentumResistance(m)) \div 1000
    IN  MulDiv(MulDiv(r * 750, turnEffectiveness, 1000), SailFactor(ss), 1000)

---------------------------------------------------------------------------
(* Ship.calculateSailEfficiency                                            *)

\* Math.PI / 2 in heading units (90 degrees / 1.25 degrees)
quarterTurn == 72
fullTurn == 4 * quarterTurn

\* An efficiency of 1.0; a percentage of it
effOne == 100 * quarterTurn
EffFrac(percent) == (percent * effOne) \div 100

\* Math.acos of the dot product of two unit vectors at angles a and b, in
\* degrees: the angle between them, in [0, 180]
AngularDistance(a, b) ==
    LET x == (a - b) % fullTurn
    IN  Min(x, fullTurn - x)

\* sailNormalAngle = body.angle + sailAngleRad + Math.PI / 2
SailNormalAngle(bodyAngle, sailAngle) == bodyAngle + sailAngle + quarterTurn

\* A mutant of WindSailEfficiency: nothing is gained inside the half circle.
WindSailEfficiencyFlat(angleDiffDegrees) == EffFrac(35)

\* efficiency, from angleDiffDegrees: 1.0 - 0.65 * d / 90 up to 90 degrees,
\* 0.35 beyond, then clamped to [0.35, 1]
WindSailEfficiency(angleDiffDegrees) ==
    LET efficiency ==
            IF angleDiffDegrees <= quarterTurn
            THEN effOne - (EffFrac(65) * angleDiffDegrees) \div quarterTurn
            ELSE EffFrac(35)
    IN  Min(effOne, Max(EffFrac(35), efficiency))

\* angleBonus = Math.min(0.2, Math.abs(sailAngle) / 75 * 0.2)
AngleBonus(sailAngle) ==
    Min(EffFrac(20), (Abs(sailAngle) * EffFrac(20)) \div maxSailAngle)

\* angleDiffDegrees and efficiency of one open sail
SailReading(s, bodyAngle, windDirection) ==
    LET d == AngularDistance(windDirection, SailNormalAngle(bodyAngle, s.angle))
    IN  [ angleDiffDegrees |-> d, efficiency |-> WindSailEfficiency(d) ]

\* totalEfficiency * 100: the sum over the open sails of
\* (efficiency + angleBonus) * openness
RECURSIVE TotalEfficiency(_, _, _, _)
TotalEfficiency(ss, ids, bodyAngle, windDirection) ==
    IF ids = {} THEN 0
    ELSE LET id == CHOOSE i \in ids : TRUE
             r == SailReading(ss[id], bodyAngle, windDirection)
         IN  (r.efficiency + AngleBonus(ss[id].angle)) * ss[id].openness
                 + TotalEfficiency(ss, ids \ {id}, bodyAngle, windDirection)

\* Ship.calculateSailEfficiency
CalculateSailEfficiency(ss, bodyAngle, windDirection) ==
    LET open == OpenSailIds(ss)
        sailCount == Cardinality(open)
    IN  IF sailCount > 0
        THEN Max(EffFrac(20),
                 Min(EffFrac(150),
                     TotalEfficiency(ss, open, bodyAngle, windDirection)
                         \div (100 * sailCount)))
        ELSE 0

---------------------------------------------------------------------------
(* Ship.applyWindForce and the drag of Ship.update                         *)

\* A drag factor of 1.0
dragOne == 100 * 100

\* 0.85, the drag with the sails closed; 0.13, what fully open sails add;
\* 0.05, the most momentum adds; 0.95, the drag while the sails rotate
dragClosed == 85 * 100
dragOpenBonus == 13 * 100
momentumBonusMax == 5 * 100
dragRotating == 95 * 100

\* The speeds below which a ship with closed sails is stopped: 0.05 in
\* applyWindForce, 0.01 in update
windStopSpeed == 50
updateStopSpeed == 10

\* a / c rounded to the nearest integer, as a double product is rounded to
\* the nearest representable value
RoundDiv(a, c) ==
    IF a >= 0 THEN (2 * a + c) \div (2 * c) ELSE -((2 * (-a) + c) \div (2 * c))

Zero == [ x |-> 0, y |-> 0 ]

\* A mutant of Scaled: the drag factor is not applied.
ScaledNot(v, factor) == v

\* { x: velocity.x * dragFactor, y: velocity.y * dragFactor }
Scaled(v, factor) ==
    [ x |-> RoundDiv(v.x * factor, dragOne), y |-> RoundDiv(v.y * factor, dragOne) ]

IsSlow(v, limit) == Abs(v.x) < limit /\ Abs(v.y) < limit

\* dragFactor of applyWindForce
WindDragFactor(ss, m) ==
    IF OpenSailIds(ss) # {}
    THEN dragClosed
             + (dragOpenBonus * SumOver(ss, DOMAIN ss, "openness"))
                   \div (100 * Cardinality(DOMAIN ss))
             + Min(momentumBonusMax, 5 * m)
    ELSE dragClosed

\* whether applyWindForce stops the ship: sails closed and both velocity
\* components below 0.05 after the drag
WindStops(ss, v, m) ==
    OpenSailIds(ss) = {} /\ IsSlow(Scaled(v, WindDragFactor(ss, m)), windStopSpeed)

VelocityAfterWind(ss, v, m) ==
    IF WindStops(ss, v, m) THEN Zero ELSE Scaled(v, WindDragFactor(ss, m))

MomentumAfterWind(ss, v, m) == IF WindStops(ss, v, m) THEN 0 ELSE m

\* dragFactor of Ship.update
UpdateDragFactor(ss, rotating) ==
    LET open == OpenSailIds(ss)
        base == IF open # {}
                THEN dragClosed
                         + (dragOpenBonus * SumOver(ss, open, "openness"))
                               \div (100 * Cardinality(open))
                ELSE dragClosed
    IN  IF rotating THEN Max(base, dragRotating) ELSE base

UpdateStops(ss, v, rotating) ==
    OpenSailIds(ss) = {}
        /\ IsSlow(Scaled(v, UpdateDragFactor(ss, rotating)), updateStopSpeed)

VelocityAfterUpdate(ss, v, rotating) ==
    IF UpdateStops(ss, v, rotating) THEN Zero
    ELSE Scaled(v, UpdateDragFactor(ss, rotating))

MomentumAfterUpdate(ss, v, m, rotating) ==
    IF UpdateStops(ss, v, rotating) THEN 0 ELSE m

\* constantWindBase = 0.8, in wind power units; windForceFactor = 0.08, in
\* thousandths; minEfficiency = 0.40
constantWindBase == 8
windForceFactor == 80
minEfficiency == EffFrac(40)

\* this.forwardForce = (constantWindBase + windPower) * baseEfficiency
\*                         * windForceFactor * opennessFactor
ForwardForce(windPower, sailEfficiency, ss) ==
    LET baseEfficiency == Max(minEfficiency, sailEfficiency)
        perOpenness == ((constantWindBase + windPower) * baseEfficiency
                            * windForceFactor) \div effOne
    IN  (perOpenness * SumOver(ss, DOMAIN ss, "openness")) \div Cardinality(DOMAIN ss)

\* A mutant of AlignmentFactor: the 15 % minimum is not applied.
AlignmentFactorNoFloor(bodyAngle, windDirection) ==
    LET angleDiffDegrees == AngularDistance(windDirection, bodyAngle)
    IN  IF angleDiffDegrees <= quarterTurn
        THEN 1000 - (550 * angleDiffDegrees) \div quarterTurn
        ELSE (450 * Max(0, quarterTurn - (angleDiffDegrees - quarterTurn)))
                 \div quarterTurn

\* alignmentFactor, in thousandths, from the angle between the wind and the
\* ship's heading
AlignmentFactor(bodyAngle, windDirection) ==
    LET angleDiffDegrees == AngularDistance(windDirection, bodyAngle)
        raw == IF angleDiffDegrees <= quarterTurn
               THEN 1000 - (550 * angleDiffDegrees) \div quarterTurn
               ELSE (450 * Max(0, quarterTurn - (angleDiffDegrees - quarterTurn)))
                        \div quarterTurn
    IN  Max(150, raw)

\* finalForce
FinalForce(sailEfficiency, force, bodyAngle, windDirection) ==
    IF sailEfficiency > 0
    THEN (force * AlignmentFactor(bodyAngle, windDirection)) \div 1000
    ELSE 0

\* Math.cos and Math.sin of a heading that is a multiple of 45 degrees, in
\* thousandths
Cos(angle) ==
    LET k == (angle % fullTurn) \div (fullTurn \div 8)
    IN  << 1000, 707, 0, -707, -1000, -707, 0, 707 >>[k + 1]

Sin(angle) == Cos(angle - quarterTurn)

Headings == { k * (fullTurn \div 8) : k \in 0..7 }

\* body.force when applyWindForce applies none
NoForce == [ applied |-> FALSE, x |-> 0, y |-> 0 ]

\* A mutant of ForceVector: the force is applied along the wind.
ForceVectorAlongWind(bodyAngle, windDirection, finalForce) ==
    [ applied |-> TRUE,
      x |-> MulDiv(Cos(windDirection), finalForce, 1000),
      y |-> MulDiv(Sin(windDirection), finalForce, 1000) ]

\* forceVector = { x: shipDirectionX * finalForce, y: shipDirectionY * finalForce }
ForceVector(bodyAngle, windDirection, finalForce) ==
    [ applied |-> TRUE,
      x |-> MulDiv(Cos(bodyAngle), finalForce, 1000),
      y |-> MulDiv(Sin(bodyAngle), finalForce, 1000) ]

---------------------------------------------------------------------------
(* Deck geometry: ship-local and world coordinates, Ship.isPositionOnDeck  *)

\* The denominator of the cosines and sines of the deck headings
rotDen == 5

\* One pixel in deck units: a world point on the pixel grid stays on the
\* unit grid through two rotations
pxUnit == rotDen * rotDen

Px(n) == n * pxUnit
Point(xPx, yPx) == [ x |-> Px(xPx), y |-> Px(yPx) ]

\* The rotations with rational cosine and sine in fifths: the quarter turns
\* and the 3-4-5 angles (36.87 and 53.13 degrees off each axis)
DeckHeadings ==
    { r \in [ c : {-5, -4, -3, 0, 3, 4, 5}, s : {-5, -4, -3, 0, 3, 4, 5} ] :
          r.c * r.c + r.s * r.s = rotDen * rotDen }

\* Math.cos(-a), Math.sin(-a) from Math.cos(a), Math.sin(a)
Negated(r) == [ c |-> r.c, s |-> -r.s ]

\* (x * cos - y * sin, x * sin + y * cos)
Rotated(v, r) ==
    [ x |-> RoundDiv(v.x * r.c - v.y * r.s, rotDen),
      y |-> RoundDiv(v.x * r.s + v.y * r.c, rotDen) ]

\* A mutant of ShipToWorldCoordinates: the rotation is applied with the sign
\* of the inverse transformation.
ShipToWorldSameSign(local, shipPosition, r) ==
    LET w == Rotated(local, Negated(r))
    IN  [ x |-> shipPosition.x + w.x, y |-> shipPosition.y + w.y ]

\* Game.worldToShipCoordinates
WorldToShipCoordinates(world, shipPosition, r) ==
    Rotated([ x |-> world.x - shipPosition.x, y |-> world.y - shipPosition.y ],
            Negated(r))

\* Game.shipToWorldCoordinates
ShipToWorldCoordinates(local, shipPosition, r) ==
    LET w == Rotated(local, r)
    IN  [ x |-> shipPosition.x + w.x, y |-> shipPosition.y + w.y ]

\* No firing call made yet
NoFire == [ op |-> "none" ]

\* body.angle in the cannon's angle unit
HeadingAngle(h) == (h * TwoPi) \div fullTurn

\* What fire hands to game.addCannonball: the spawn point, named here by the
\* cannon whose muzzle it is, the firing angle and the speed
NewCannonball(id, c, shipAngle, shipVelocity) ==
    [ from |-> id,
      angle |-> HeadingAngle(shipAngle) + c.turretAngle + c.rotation + Pi,
      speed |-> baseCannonballSpeed + Speed(shipVelocity) \div 2 ]

\* new Ship(400, 350, ...)
ShipStart == Point(400, 350)

\* No query made yet
NoQuery == [ op |-> "none" ]

\* Ship.MASTS, Ship.WHEEL and Ship.CANNONS
MASTS ==
    { [ x |-> Px(165), y |-> 0, r |-> Px(30) ],
      [ x |-> Px(-35), y |-> 0, r |-> Px(30) ],
      [ x |-> Px(-235), y |-> 0, r |-> Px(30) ] }

WHEEL == [ x |-> Px(-90), y |-> 0, w |-> Px(20), h |-> Px(40) ]

CANNONS ==
    { [ x |-> Px(x), y |-> Px(y), w |-> Px(30), h |-> Px(30) ] :
          x \in {-35, 65, -135}, y \in {75, -75} }

\* The fallback hull boundary of isPositionOnDeck
hullMinX == Px(-345)
hullMaxX == Px(415)
hullMaxY == Px(90)

\* moduleSize of isPositionOnDeck
moduleSize == Px(20)

At(f) == [ x |-> f.x, y |-> f.y ]

\* The strict box test used for the wheel, the cannons and the modules:
\* 2 * |p - centre| < size on both axes
InBox(p, centre, w, h) ==
    /\ 2 * p.x > 2 * centre.x - w /\ 2 * p.x < 2 * centre.x + w
    /\ 2 * p.y > 2 * centre.y - h /\ 2 * p.y < 2 * centre.y + h

\* Ship.getModuleVisualPosition
GetModuleVisualPosition(id, mods, visual) ==
    IF id \in DOMAIN visual THEN visual[id]
    ELSE IF id \in DOMAIN mods THEN mods[id].position
    ELSE [ x |-> 0, y |-> 0 ]

\* The modules isPositionOnDeck skips as standard obstacles
IsStandardObstacle(m) ==
    \/ m.type = "wheel" /\ m.position = At(WHEEL)
    \/ m.type = "cannon" /\ \E c \in CANNONS : At(c) = m.position

\* A mutant of InMast: no point is inside a mast.
InMastNever(rotated, mast) == FALSE

\* dx * dx + dy * dy < mast.r * mast.r
InMast(rotated, mast) ==
    LET dx == rotated.x - mast.x
        dy == rotated.y - mast.y
    IN  dx * dx + dy * dy < mast.r * mast.r

\* The boundary check used when no canvas context is passed
InHullBounds(rotated) ==
    ~(rotated.x < hullMinX \/ rotated.x > hullMaxX
        \/ rotated.y < -hullMaxY \/ rotated.y > hullMaxY)

\* Containment in the closed path of createHullPath, which isPointInPath
\* tests with a canvas context: from bow (190, 90) a quadratic curve with
\* control point bowTip (415, 0) to (190, -90), a line to sternBottom
\* (-260, -90), a quadratic curve with control point sternTip (-345, 0) to
\* stern (-260, 90), and the closing line.  At height y the bow curve is at
\* x = 190 + (8100 - y^2) / 72 and the stern curve at
\* x = -260 - 17 * (8100 - y^2) / 3240 (in px); the path itself counts as
\* inside.
IsPointInHullPath(rotated) ==
    LET room == Px(90) * Px(90) - rotated.y * rotated.y
    IN  /\ rotated.y >= -hullMaxY /\ rotated.y <= hullMaxY
        /\ 72 * pxUnit * (rotated.x - Px(190)) <= room
        /\ 3240 * pxUnit * (rotated.x + Px(260)) >= -17 * room

\* isPositionOnDeck after the rotation into ship space, without a canvas
\* context (the fallback boundary check)
IsLocalOnDeck(rotated, mods, visual) ==
    /\ InHullBounds(rotated)
    /\ \A mast \in MASTS : ~InMast(rotated, mast)
    /\ ~InBox(rotated, At(WHEEL), WHEEL.w, WHEEL.h)
    /\ \A cannon \in CANNONS : ~InBox(rotated, At(cannon), cannon.w, cannon.h)
    /\ \A id \in DOMAIN mods :
           \/ IsStandardObstacle(mods[id])
           \/ ~InBox(rotated, GetModuleVisualPosition(id, mods, visual),
                     moduleSize, moduleSize)

\* A mutant of IsPositionOnDeck: the point is not rotated into ship space.
IsPositionOnDeckUnrotated(p, shipPosition, r, mods, visual) ==
    IsLocalOnDeck([ x |-> p.x - shipPosition.x, y |-> p.y - shipPosition.y ],
                  mods, visual)

\* Ship.isPositionOnDeck(x, y)
IsPositionOnDeck(p, shipPosition, r, mods, visual) ==
    IsLocalOnDeck(WorldToShipCoordinates(p, shipPosition, r), mods, visual)

\* findSafeDismountPosition: the search reaches 60 px from the start in 5
\* rings of 8 directions
searchRadius == Px(60)
steps == 8
increments == 5

\* Math.cos and Math.sin of angle = (i / steps) * 2 * PI for i = 0..7, in
\* ten-thousandths
trigDen == 10000
DirCos == << 10000, 7071, 0, -7071, -10000, -7071, 0, 7071 >>
DirSin == << 0, 7071, 10000, 7071, 0, -7071, -10000, -7071 >>

StepDistance(inc) == (searchRadius * inc) \div increments

\* The world point tested for ring inc (1..increments) and direction i
\* (0..steps-1): the start in the ship's frame, moved by the step along the
\* direction, converted back to world coordinates
Candidate(start, shipPosition, r, inc, i) ==
    LET rotated == WorldToShipCoordinates(start, shipPosition, r)
        testLocal == [ x |-> rotated.x + RoundDiv(DirCos[i + 1] * StepDistance(inc), trigDen),
                       y |-> rotated.y + RoundDiv(DirSin[i + 1] * StepDistance(inc), trigDen) ]
    IN  ShipToWorldCoordinates(testLocal, shipPosition, r)

\* A search taking the rings from the outermost inwards
RingOuterFirst(n) == increments - n \div steps

\* The ring of the n-th candidate tested (n from 0): the outer loop runs over
\* the rings, innermost first, the inner loop over the directions
RingOf(n) == n \div steps + 1

\* The two loops: the first candidate in loop order that is on the deck is
\* returned; when the loops end without one, the ship's position
ScanCandidates(start, shipPosition, r, mods, visual) ==
    LET last == steps * increments - 1
        Test(n) == Candidate(start, shipPosition, r, RingOf(n), n % steps)
        Safe(n) == IsPositionOnDeck(Test(n), shipPosition, r, mods, visual)
    IN  IF \E n \in 0 .. last : Safe(n)
        THEN Test(CHOOSE n \in 0 .. last : Safe(n) /\ \A m \in 0 .. n - 1 : ~Safe(m))
        ELSE shipPosition

FindSafeDismountPosition(start, shipPosition, r, mods, visual) ==
    IF IsPositionOnDeck(start, shipPosition, r, mods, visual)
    THEN start
    ELSE ScanCandidates(start, shipPosition, r, mods, visual)

\* f with key k set to v, k in its domain or not
Put(f, k, v) == [ i \in DOMAIN f \cup {k} |-> IF i = k THEN v ELSE f[i] ]

\* f without key k
Without(f, k) == [ i \in DOMAIN f \ {k} |-> f[i] ]

\* The slot ensureModuleVisualPosition matches a plain module to: the wheel
\* slot for a wheel exactly on it, a mast or cannon bay within 20 px on both
\* axes; the position itself with no match
MatchedSlot(type, pos) ==
    LET near == IF type = "sail" THEN { At(m) : m \in MASTS }
                ELSE IF type = "cannon" THEN { At(c) : c \in CANNONS }
                ELSE {}
        matching == { s \in near : Abs(s.x - pos.x) < Px(20) /\ Abs(s.y - pos.y) < Px(20) }
    IN  IF matching # {} THEN CHOOSE s \in matching : TRUE ELSE pos

\* The modules Game.addInitialShipModules mounts, as typed module objects
InitialShipModules ==
    [ id \in {"wheel", "sail1", "sail2", "sail3", "cannon1", "cannon2", "cannon3",
              "cannon4", "cannon5", "cannon6"} |->
        CASE id = "wheel" -> [ type |-> "wheel", position |-> Point(-50, 0) ]
          [] id = "sail1" -> [ type |-> "sail", position |-> Point(165, 0) ]
          [] id = "sail2" -> [ type |-> "sail", position |-> Point(-35, 0) ]
          [] id = "sail3" -> [ type |-> "sail", position |-> Point(-235, 0) ]
          [] id = "cannon1" -> [ type |-> "cannon", position |-> Point(-35, 75) ]
          [] id = "cannon2" -> [ type |-> "cannon", position |-> Point(65, 75) ]
          [] id = "cannon3" -> [ type |-> "cannon", position |-> Point(-135, 75) ]
          [] id = "cannon4" -> [ type |-> "cannon", position |-> Point(-35, -75) ]
          [] id = "cannon5" -> [ type |-> "cannon", position |-> Point(65, -75) ]
          [] id = "cannon6" -> [ type |-> "cannon", position |-> Point(-135, -75) ] ]

---------------------------------------------------------------------------
(* Default (constructor) values of the state each specification leaves     *)
(* alone.                                                                  *)

CannonIds == {"cannon1"}
SailIds == {"sail1", "sail2", "sail3"}

\* new SailModule(position): openness 0, angle 0
NewSail == [ openness |-> 0, angle |-> 0 ]

CannonDefaults ==
    /\ cannons = [ id \in CannonIds |-> NewCannon(0) ]
    /\ now = 0

SailDefaults ==
    /\ sails = [ id \in SailIds |-> NewSail ]
    /\ isRotatingSails = FALSE
    /\ sailRotationTimer = 0

RudderDefaults ==
    /\ rudderAngle = 0
    /\ wheelAngle = 0
    /\ momentum = 0
    /\ turningForce = 0
    /\ torqueApplied = FALSE

WindDefaults ==
    /\ currentWindDirection = 0
    /\ currentWindPower = 0
    /\ forwardForce = 0
    /\ appliedForce = NoForce
    /\ lastSailEfficiency = 0
    /\ sailReadings = << >>

BodyDefaults ==
    /\ velocity = [ x |-> 0, y |-> 0 ]
    /\ heading = 0

DeckDefaults ==
    /\ position = ShipStart
    /\ modules = InitialShipModules
    /\ moduleVisualPositions = << >>
    /\ deckQuery = NoQuery

FireDefaults ==
    /\ cannonballs = << >>
    /\ fireResult = NoFire

\* WorldManager.setupWind: a random direction, 0 here, and power 1.0
WorldDefaults ==
    /\ worldWindDirection = 0
    /\ worldWindPower = 1000

\* new Player(400, 300), off the ship; no tick made yet; the Game constructor
\* has called ship.setGame(this)
PlayerStart == [ position |-> Point(400, 300), onShip |-> FALSE, atWheel |-> FALSE ]

GameDefaults ==
    /\ player = PlayerStart
    /\ callOrder = << >>
    /\ shipGame = "game"

---------------------------------------------------------------------------
(* Cannon aiming: one cannon, mounted as Game.addInitialShipModules mounts *)
(* them (base rotation 0 on one side, pi on the other).                    *)

\* An angle inside the valid range, about 40 degrees
Deg40 == validAngleRange - 35

\* Bearings Math.atan2 can return for the local targets tried: every 22.5
\* degrees around the cannon, and the bearings that aim 40 degrees off either
\* broadside.
AimBearings ==
    { k * (validAngleRange \div 2) : k \in -8..8 }
        \cup { s * (Pi \div 2) + t * Deg40 : s \in {-1, 1}, t \in {-1, 1} }

\* Arguments tried for setTurretAngle
SetAngles == { -(Pi \div 2), -Deg40, 0, 1, validAngleRange, Pi \div 2, Pi }

CannonAimAt(id, bearing) ==
    /\ cannons' = [ cannons EXCEPT ![id] = CannonAimed(@, bearing) ]
    /\ UNCHANGED << deckVars, fireVars, worldVars, gameVars,
                    now, sailVars, rudderVars, windVars, bodyVars >>

CannonResetAim(id) ==
    /\ cannons' = [ cannons EXCEPT ![id] = CannonReset(@) ]
    /\ UNCHANGED << deckVars, fireVars, worldVars, gameVars,
                    now, sailVars, rudderVars, windVars, bodyVars >>

CannonSetTurretAngle(id, angle) ==
    /\ cannons' = [ cannons EXCEPT ![id] = CannonSet(@, angle) ]
    /\ UNCHANGED << deckVars, fireVars, worldVars, gameVars,
                    now, sailVars, rudderVars, windVars, bodyVars >>

CannonUpdate(id) ==
    /\ cannons' = [ cannons EXCEPT ![id] = CannonUpdated(@, now) ]
    /\ UNCHANGED << deckVars, fireVars, worldVars, gameVars,
                    now, sailVars, rudderVars, windVars, bodyVars >>

AimAtAny == \E id \in DOMAIN cannons : \E b \in AimBearings : CannonAimAt(id, b)
ResetAimAny == \E id \in DOMAIN cannons : CannonResetAim(id)
SetTurretAngleAny ==
    \E id \in DOMAIN cannons : \E a \in SetAngles : CannonSetTurretAngle(id, a)
UpdateAny == \E id \in DOMAIN cannons : CannonUpdate(id)

InitCannon ==
    /\ \E r \in {0, Pi} : cannons = [ id \in CannonIds |-> NewCannon(r) ]
    /\ now = 0
    /\ SailDefaults /\ RudderDefaults /\ WindDefaults /\ BodyDefaults
    /\ DeckDefaults /\ FireDefaults /\ WorldDefaults /\ GameDefaults

NextCannon == AimAtAny \/ ResetAimAny \/ SetTurretAngleAny \/ UpdateAny

SpecCannon == InitCannon /\ [][NextCannon]_vars

\* C3: a cannon's targetTurretAngle is always within +-45 degrees (+-pi/4) of
\* its base orientation, whatever CannonModule operations were called with
\* whatever arguments.
C3_TargetWithinRange ==
    \A id \in DOMAIN cannons :
        /\ cannons[id].targetTurretAngle <= validAngleRange
        /\ cannons[id].targetTurretAngle >= -validAngleRange

\* Shortest angular distance between the turret and its target.
ShortestDist(c) == Abs(NormPi(NormPi(c.targetTurretAngle) - NormPi(c.turretAngle)))

\* ceil(d / rotationSpeed). The program's angles are doubles and pi is
\* irrational, so two stored angles that differ are never a whole turn apart:
\* their distance d is positive. The model's pi is a whole number of units, so
\* stored angles that differ by a whole turn stand for a distance below one
\* unit, which rounds up to one tick.
TicksBound(c) ==
    IF c.turretAngle = c.targetTurretAngle THEN 0
    ELSE Max(1, CeilDiv(ShortestDist(c), rotationSpeed))

C4_UpdateStep(id) ==
    LET c == cannons[id]
        c2 == cannons'[id]
    IN  CannonUpdate(id) =>
          /\ c2.targetTurretAngle = c.targetTurretAngle
          /\ c.turretAngle = c.targetTurretAngle => c2.turretAngle = c.turretAngle
          /\ c.turretAngle # c.targetTurretAngle =>
                /\ TicksBound(c2) < TicksBound(c)
                /\ \/ c2.turretAngle = c.targetTurretAngle
                   \/ ShortestDist(c2) = ShortestDist(c) - rotationSpeed

C4_State(id) ==
    LET c == cannons[id]
    IN  c.turretAngle # c.targetTurretAngle => ENABLED <<CannonUpdate(id)>>_vars

\* C4: with the target held fixed, every update() of a turret that is off its
\* target turns it toward the target the shorter way, by rotationSpeed or
\* exactly onto the target, and lowers ceil(d / rotationSpeed) by at least
\* one, so the turret equals the target exactly after at most that many
\* ticks; it never passes the target, and once equal it stays equal.
C4_TurretConverges ==
    /\ [](\A id \in DOMAIN cannons : C4_State(id))
    /\ [][\A id \in DOMAIN cannons : C4_UpdateStep(id)]_vars

\* The scenario's turret one tick on its way from -40 to +40 degrees.
C4_Witness ==
    \E id \in DOMAIN cannons :
        /\ cannons[id].targetTurretAngle = Deg40
        /\ cannons[id].turretAngle = TwoPi - Deg40 + rotationSpeed

---------------------------------------------------------------------------
(* Sail handling: Ship.rotateSails, adjustSails, openSails, closeSails on  *)
(* the three sails Game.addInitialShipModules mounts.                      *)

Directions == {"left", "right", "center"}

\* Percentages tried for adjustSails, in and out of range
AdjustPercents == {-50, -1, 0, 1, 35, 100, 101, 250}

\* Ship.rotateSails; the velocity saved at entry is restored at exit
RotateSails(direction) ==
    /\ sails' = [ id \in DOMAIN sails |->
                    CASE direction = "left" -> SailRotate(sails[id], -sailRotationRate)
                      [] direction = "right" -> SailRotate(sails[id], sailRotationRate)
                      [] direction = "center" ->
                             SailCenterAngle(sails[id], sailRotationRate) ]
    /\ isRotatingSails' = TRUE
    /\ sailRotationTimer' = sailRotationTicks
    /\ velocity' = velocity
    /\ UNCHANGED << deckVars, fireVars, worldVars, gameVars,
                    heading, cannonVars, rudderVars, windVars >>

\* Ship.adjustSails
AdjustSails(openPercent) ==
    /\ sails' = [ id \in DOMAIN sails |-> SailSetOpenness(sails[id], openPercent) ]
    /\ UNCHANGED << deckVars, fireVars, worldVars, gameVars,
                    isRotatingSails, sailRotationTimer, cannonVars, rudderVars,
                    windVars, bodyVars >>

\* Ship.openSails
ShipOpenSails ==
    /\ sails' = [ id \in DOMAIN sails |-> SailOpen(sails[id], sailIncrement) ]
    /\ UNCHANGED << deckVars, fireVars, worldVars, gameVars,
                    isRotatingSails, sailRotationTimer, cannonVars, rudderVars,
                    windVars, bodyVars >>

\* Ship.closeSails
ShipCloseSails ==
    /\ sails' = [ id \in DOMAIN sails |-> SailClose(sails[id], sailIncrement) ]
    /\ UNCHANGED << deckVars, fireVars, worldVars, gameVars,
                    isRotatingSails, sailRotationTimer, cannonVars, rudderVars,
                    windVars, bodyVars >>

RotateSailsAny == \E d \in Directions : RotateSails(d)
AdjustSailsAny == \E p \in AdjustPercents : AdjustSails(p)

InitSails ==
    /\ SailDefaults
    /\ CannonDefaults /\ RudderDefaults /\ WindDefaults /\ BodyDefaults
    /\ DeckDefaults /\ FireDefaults /\ WorldDefaults /\ GameDefaults

NextSails == RotateSailsAny \/ AdjustSailsAny \/ ShipOpenSails \/ ShipCloseSails

SpecSails == InitSails /\ [][NextSails]_vars

\* C2: after any sequence of rotateSails, adjustSails, openSails and
\* closeSails, every sail's trim angle is within [-75, 75] degrees and its
\* openness within [0, 100].
C2_SailsInRange ==
    \A id \in DOMAIN sails :
        /\ sails[id].angle >= -maxSailAngle
        /\ sails[id].angle <= maxSailAngle
        /\ sails[id].openness >= 0
        /\ sails[id].openness <= 100

\* Every sail hard over at the trim limit and fully open.
C2_Witness ==
    /\ isRotatingSails
    /\ \A id \in DOMAIN sails :
           sails[id].angle = -maxSailAngle /\ sails[id].openness = 100

---------------------------------------------------------------------------
(* Rudder: Ship.applyRudder at the speeds the physics engine gives the     *)
(* body, with the sails closed or fully open.                              *)

\* Body velocities the physics engine is taken to produce: at
\* rest (the slowest rudder rate, 0.25 degrees) and speed 3.0 (the fastest,
\* 0.6 degrees)
RudderVelocities == { [ x |-> 0, y |-> 0 ], [ x |-> 0, y |-> -3000 ] }

\* Ship.applyRudder
ApplyRudder(direction) ==
    LET currentSpeed == Speed(velocity)
        m == MomentumAfter(momentum, currentSpeed)
        r == RudderMoved(rudderAngle, direction, RudderChangeRate(currentSpeed))
    IN  /\ momentum' = m
        /\ rudderAngle' = r
        /\ wheelAngle' = WheelAngleSet(r)
        /\ turningForce' = TurningForce(r, currentSpeed, m, sails)
        /\ torqueApplied' = (currentSpeed > 50 \/ OpenSailIds(sails) # {})
        /\ UNCHANGED << deckVars, fireVars, worldVars, gameVars,
                        cannonVars, sailVars, windVars, bodyVars >>

\* Matter.Engine.update as the rudder sees it: the body has a new velocity
RudderPhysicsStep ==
    /\ \E v \in RudderVelocities : velocity' = v
    /\ UNCHANGED << deckVars, fireVars, worldVars, gameVars,
                    heading, cannonVars, sailVars, windVars, rudderVars >>

ApplyRudderAny == \E d \in Directions : ApplyRudder(d)

InitRudder ==
    /\ RudderDefaults
    /\ \E o \in {0, 100} : sails = [ id \in SailIds |-> [ openness |-> o, angle |-> 0 ] ]
    /\ isRotatingSails = FALSE
    /\ sailRotationTimer = 0
    /\ CannonDefaults /\ WindDefaults /\ BodyDefaults
    /\ DeckDefaults /\ FireDefaults /\ WorldDefaults /\ GameDefaults

NextRudder == ApplyRudderAny \/ RudderPhysicsStep

SpecRudder == InitRudder /\ [][NextRudder]_vars

\* C1: after any sequence of applyRudder calls at any ship speeds,
\* rudderAngle is within [-30, 30] degrees.
C1_RudderInRange == rudderAngle >= -maxRudder /\ rudderAngle <= maxRudder

\* The rudder hard over to starboard while the ship is moving.
C1_Witness == rudderAngle = maxRudder /\ Speed(velocity) > 0 /\ momentum > 0

SailsFullyOpen == \A id \in DOMAIN sails : sails[id].openness = 100

\* C10: at speed 0 with the sails fully open, every applyRudder('left') moves
\* rudderAngle strictly down, by the 0.25 degree rate or onto exactly -30
\* degrees, never below it; at -30 degrees a further 'left' leaves it there.
C10_LeftHeldAtRest ==
    [][ (ApplyRudder("left") /\ Speed(velocity) = 0 /\ SailsFullyOpen) =>
          /\ rudderAngle' >= -maxRudder
          /\ rudderAngle > -maxRudder =>
                /\ rudderAngle' < rudderAngle
                /\ rudderAngle' = -maxRudder \/ rudderAngle' = rudderAngle - baseRudderRate
          /\ rudderAngle = -maxRudder => rudderAngle' = -maxRudder ]_vars

\* The rudder held at exactly -30 degrees at rest with the sails fully open.
C10_Witness ==
    /\ rudderAngle = -maxRudder
    /\ wheelAngle = -maxRudder
    /\ Speed(velocity) = 0
    /\ SailsFullyOpen
    /\ torqueApplied

---------------------------------------------------------------------------
(* Wind propulsion: Ship.applyWindForce on a ship of one or three sails,   *)
(* at every heading that is a multiple of 45 degrees, the sails trimmed to *)
(* one of a few angles rotateSails reaches.                                *)

\* Wind directions and powers WorldManager hands over: 0, 135 and 270
\* degrees, which with the eight headings give every relative wind that is a
\* multiple of 45 degrees; its least power 0.5 and its greatest 2.0
WindDirections == { 0, 3 * (fullTurn \div 8), 6 * (fullTurn \div 8) }
WindPowers == {5, 20}

\* Trim angles of the sails: the limits, one step off centre, centre
WindTrims == { -maxSailAngle, -sailRotationRate, 0, sailRotationRate, maxSailAngle }

\* The outputs of applyWindForce: the stored wind, forwardForce and the force
\* given to the body, or none with every sail closed
WindForceOutputs(windDirection, windPower) ==
    LET sailEfficiency == CalculateSailEfficiency(sails, heading, windDirection)
        force == ForwardForce(windPower, sailEfficiency, sails)
        finalForce == FinalForce(sailEfficiency, force, heading, windDirection)
    IN  /\ currentWindDirection' = windDirection
        /\ currentWindPower' = windPower
        /\ IF OpenSailIds(sails) # {}
           THEN /\ lastSailEfficiency' = sailEfficiency
                /\ sailReadings' = [ id \in OpenSailIds(sails) |->
                                       SailReading(sails[id], heading, windDirection) ]
                /\ forwardForce' = force
                /\ appliedForce' = ForceVector(heading, windDirection, finalForce)
           ELSE /\ appliedForce' = NoForce
                /\ UNCHANGED << lastSailEfficiency, sailReadings, forwardForce >>

\* Ship.applyWindForce
ApplyWindForce(windDirection, windPower) ==
    /\ velocity' = VelocityAfterWind(sails, velocity, momentum)
    /\ momentum' = MomentumAfterWind(sails, velocity, momentum)
    /\ WindForceOutputs(windDirection, windPower)
    /\ UNCHANGED << deckVars, fireVars, worldVars, gameVars,
                    heading, rudderAngle, wheelAngle, turningForce, torqueApplied,
                    cannonVars, sailVars >>

ApplyWindForceAny ==
    \E wd \in WindDirections : \E wp \in WindPowers : ApplyWindForce(wd, wp)

InitWind ==
    /\ \E ids \in { {"sail1"}, SailIds } : \E a \in WindTrims :
           sails = [ id \in ids |-> [ openness |-> 0, angle |-> a ] ]
    /\ isRotatingSails = FALSE
    /\ sailRotationTimer = 0
    /\ heading \in Headings
    /\ velocity = Zero
    /\ CannonDefaults /\ RudderDefaults /\ WindDefaults
    /\ DeckDefaults /\ FireDefaults /\ WorldDefaults /\ GameDefaults

NextWind == ApplyWindForceAny \/ AdjustSailsAny

SpecWind == InitWind /\ [][NextWind]_vars

\* C5: at heading 0 with the wind blowing toward 0 and one sail, open 100 %
\* at trim 0, the efficiency calculateSailEfficiency returns is about 1.0
\* (here: at least 0.95).
C5_AlignedEfficiencyIsFull ==
    [][ ( /\ ApplyWindForce(0, currentWindPower')
          /\ heading = 0
          /\ DOMAIN sails = {"sail1"}
          /\ sails["sail1"] = [ openness |-> 100, angle |-> 0 ] )
        => lastSailEfficiency' >= EffFrac(95) ]_vars

\* C6: the efficiency of a sail is 1.0 where the wind meets the sail normal
\* (d = 0), lies on the straight line from 1.0 at d = 0 to 0.35 at d = 90
\* degrees, is 0.35 for every d beyond 90 degrees, and from one wind to the
\* next never rises with d nor falls faster than that line (no jump).
C6_EfficiencyCurve ==
    [][ ApplyWindForce(currentWindDirection', currentWindPower') =>
          \A id \in DOMAIN sailReadings' :
              LET r == sailReadings'[id]
              IN  /\ r.angleDiffDegrees = 0 => r.efficiency = effOne
                  /\ r.angleDiffDegrees <= quarterTurn =>
                         quarterTurn * r.efficiency =
                             (quarterTurn - r.angleDiffDegrees) * effOne
                                 + r.angleDiffDegrees * EffFrac(35)
                  /\ r.angleDiffDegrees > quarterTurn => r.efficiency = EffFrac(35)
                  /\ id \in DOMAIN sailReadings =>
                         LET p == sailReadings[id]
                         IN  p.angleDiffDegrees <= r.angleDiffDegrees =>
                                 /\ p.efficiency >= r.efficiency
                                 /\ quarterTurn * (p.efficiency - r.efficiency)
                                        <= EffFrac(65) * (r.angleDiffDegrees
                                                              - p.angleDiffDegrees)
      ]_vars

\* A sail one step past 90 degrees off the wind, read at the floor.
C6_Witness ==
    \E id \in DOMAIN sailReadings :
        /\ sailReadings[id].angleDiffDegrees = quarterTurn + sailRotationRate
        /\ sailReadings[id].efficiency = EffFrac(35)

\* C7: the force applyWindForce applies is a non-negative multiple of the
\* heading unit vector: it has no component across the heading and none
\* astern, whatever the wind direction, wind power, trim and openness.
C7_ForceAlongHeading ==
    [][ ApplyWindForce(currentWindDirection', currentWindPower') =>
          /\ appliedForce'.x * Sin(heading') - appliedForce'.y * Cos(heading') = 0
          /\ appliedForce'.x * Cos(heading') + appliedForce'.y * Sin(heading') >= 0
      ]_vars

\* A force applied along a heading of 135 degrees with the wind blowing along
\* the x axis.
C7_Witness ==
    /\ appliedForce.applied
    /\ heading = 3 * (fullTurn \div 8)
    /\ currentWindDirection = 0
    /\ appliedForce.x < 0
    /\ appliedForce.y > 0

\* C8: with at least one sail open applyWindForce applies a force that is
\* strictly positive along the heading, whatever the wind direction, heading
\* and trim; with no sail open it applies none.
C8_OpenSailGivesThrust ==
    [][ ApplyWindForce(currentWindDirection', currentWindPower') =>
          /\ OpenSailIds(sails) # {} =>
                /\ appliedForce'.applied
                /\ forwardForce' > 0
                /\ appliedForce'.x * Cos(heading') + appliedForce'.y * Sin(heading') > 0
          /\ OpenSailIds(sails) = {} => appliedForce' = NoForce
      ]_vars

\* Thrust with the sails barely open, sailing straight into the weakest wind.
C8_Witness ==
    /\ appliedForce.applied
    /\ appliedForce # [ NoForce EXCEPT !.applied = TRUE ]
    /\ \A id \in DOMAIN sails : sails[id].openness = 1
    /\ AngularDistance(currentWindDirection, heading) = 2 * quarterTurn
    /\ currentWindPower = 5

---------------------------------------------------------------------------
(* Drift: the ship's tick, Ship.applyWindForce followed by Ship.update,    *)
(* with every sail closed and nothing else acting on the body.             *)

\* The greatest speed component the drifting ship starts with
MaxDriftSpeed == 5000

\* Velocity components at the start of the drift: either side of the two
\* stop thresholds, and fast
DriftSpeeds ==
    { -MaxDriftSpeed, -(windStopSpeed + updateStopSpeed), 0, updateStopSpeed - 1,
      windStopSpeed - 1, windStopSpeed + 1, MaxDriftSpeed \div 2 }

\* Game.update from the ship's side: applyWindForce, then Ship.update with
\* its module updates; no sail is open, so no force enters the body
GameUpdate(windDirection, windPower) ==
    LET v == VelocityAfterWind(sails, velocity, momentum)
        m == MomentumAfterWind(sails, velocity, momentum)
    IN  /\ OpenSailIds(sails) = {}
        /\ WindForceOutputs(windDirection, windPower)
        /\ velocity' = VelocityAfterUpdate(sails, v, isRotatingSails)
        /\ momentum' = MomentumAfterUpdate(sails, v, m, isRotatingSails)
        /\ IF isRotatingSails
           THEN /\ sailRotationTimer' = sailRotationTimer - 1
                /\ isRotatingSails' = ~(sailRotationTimer - 1 <= 0)
           ELSE UNCHANGED << isRotatingSails, sailRotationTimer >>
        /\ cannons' = [ id \in DOMAIN cannons |-> CannonUpdated(cannons[id], now) ]
        /\ worldWindDirection' = windDirection
        /\ worldWindPower' = 100 * windPower
        /\ UNCHANGED << deckVars, fireVars, gameVars,
                        now, sails, heading, rudderAngle, wheelAngle, turningForce,
                        torqueApplied >>

GameUpdateAny ==
    \E wd \in {0, quarterTurn} : \E wp \in {5, 20} : GameUpdate(wd, wp)

InitDrift ==
    /\ sails = [ id \in SailIds |-> NewSail ]
    /\ \E t \in {0, 1, sailRotationTicks} :
           isRotatingSails = (t > 0) /\ sailRotationTimer = t
    /\ \E vx \in DriftSpeeds : \E vy \in DriftSpeeds : velocity = [ x |-> vx, y |-> vy ]
    /\ heading = 0
    /\ rudderAngle = 0 /\ wheelAngle = 0 /\ turningForce = 0 /\ torqueApplied = FALSE
    /\ momentum \in {40, 100}
    /\ CannonDefaults /\ WindDefaults
    /\ DeckDefaults /\ FireDefaults /\ WorldDefaults /\ GameDefaults

NextDrift == GameUpdateAny

SpecDrift == InitDrift /\ [][NextDrift]_vars

\* The ticks keep coming: the game loop calls Game.update every frame
SpecDriftFair == SpecDrift /\ WF_vars(GameUpdateAny)

\* C9: with the sails closed the ticks bring the velocity to exactly zero,
\* momentum is 0 whenever a tick leaves the velocity at zero, and from then
\* on the velocity stays zero.
C9_DriftStops ==
    /\ <>[](velocity = Zero /\ momentum = 0)
    /\ [][ velocity' = Zero => momentum' = 0 ]_vars
    /\ [][ velocity = Zero => velocity' = Zero ]_vars

\* The ship stopped and its momentum reset, the sail rotation timer run out.
C9_Witness ==
    /\ velocity = Zero
    /\ momentum = 0
    /\ ~isRotatingSails
    /\ currentWindPower > 0

---------------------------------------------------------------------------
(* Deck: coordinate conversions and deck queries on a ship at any of the   *)
(* exact headings, at its starting position or away from it.               *)

\* Ship-local points queried, on the 5 px grid: the centre and beside it, a
\* mast centre and a point on its rim, the wheel slot, a cannon bay, open
\* deck, and beyond the bow
QueryLocals ==
    { Point(0, 0), Point(5, 5), Point(165, 0), Point(195, 0), Point(-90, 0),
      Point(-35, 75), Point(100, 40), Point(420, 0) }

\* Ship positions: where Game constructs the ship, and away from it
ShipPositions == { ShipStart, Point(-120, 75) }

\* The world point that lies at a ship-local point
WorldAt(local) == ShipToWorldCoordinates(local, position, heading)

\* Game.worldToShipCoordinates, then Game.shipToWorldCoordinates of what it
\* returned
WorldToShipThenBack(p) ==
    LET local == WorldToShipCoordinates(p, position, heading)
    IN  /\ deckQuery' = [ op |-> "worldToShipThenBack", point |-> p,
                          local |-> local,
                          result |-> ShipToWorldCoordinates(local, position, heading) ]
        /\ UNCHANGED << position, modules, moduleVisualPositions, fireVars,
                        worldVars, gameVars, cannonVars, sailVars, rudderVars, windVars,
                        bodyVars >>

WorldToShipThenBackAny == \E l \in QueryLocals : WorldToShipThenBack(WorldAt(l))

\* The cannons the Game constructor mounts: the port row faces Math.PI, the
\* starboard row 0
ShipCannons ==
    [ id \in { i \in DOMAIN InitialShipModules : InitialShipModules[i].type = "cannon" } |->
        NewCannon(IF id \in {"cannon1", "cannon2", "cannon3"} THEN Pi ELSE 0) ]

InitDeck ==
    /\ position \in ShipPositions
    /\ heading \in DeckHeadings
    /\ velocity = Zero
    /\ modules = InitialShipModules
    /\ moduleVisualPositions = << >>
    /\ deckQuery = NoQuery
    /\ cannons = ShipCannons /\ now = 0
    /\ SailDefaults /\ RudderDefaults /\ WindDefaults
    /\ FireDefaults /\ WorldDefaults /\ GameDefaults

\* Ship.addModule(id, moduleOrData): a typed module object is stored as it
\* is; plain module data has its position recorded as the visual position
\* and then matched to a slot; either way the module joins the collection
\* of its type
AddModule(id, type, pos, typed) ==
    /\ modules' = Put(modules, id,
                      [ type |-> type,
                        position |-> IF typed THEN pos ELSE MatchedSlot(type, pos) ])
    /\ moduleVisualPositions' =
           IF typed THEN moduleVisualPositions
           ELSE Put(moduleVisualPositions, id, pos)
    /\ cannons' = IF type = "cannon"
                  THEN Put(cannons, id, [ NewCannon(0) EXCEPT !.game = GameFromShip(shipGame) ])
                  ELSE cannons
    /\ sails' = IF type = "sail" THEN Put(sails, id, NewSail) ELSE sails
    /\ deckQuery' = NoQuery
    /\ UNCHANGED << position, fireVars, worldVars, gameVars, now, isRotatingSails,
                    sailRotationTimer, rudderVars, windVars, bodyVars >>

\* Ship.removeModule(id)
RemoveModule(id) ==
    /\ id \in DOMAIN modules
    /\ modules' = Without(modules, id)
    /\ deckQuery' = NoQuery
    /\ UNCHANGED << position, moduleVisualPositions, fireVars, worldVars, gameVars,
                    cannonVars, sailVars, rudderVars, windVars, bodyVars >>

\* Ship.isPositionOnDeck(x, y), as Game calls it
IsPositionOnDeckQuery(p) ==
    /\ deckQuery' = [ op |-> "isPositionOnDeck", point |-> p,
                      result |-> IsPositionOnDeck(p, position, heading, modules,
                                                  moduleVisualPositions) ]
    /\ UNCHANGED << position, modules, moduleVisualPositions, fireVars,
                    worldVars, gameVars, cannonVars, sailVars, rudderVars, windVars,
                    bodyVars >>

\* Modules added to the ship under the deck queries: a sail object beside
\* the centre, plain cannon data near a cannon bay, a wheel object on open
\* deck
DeckAddModule ==
    \/ AddModule("extra", "sail", Point(5, 5), TRUE)
    \/ AddModule("extra", "cannon", Point(-30, 70), FALSE)
    \/ AddModule("extra", "wheel", Point(100, 40), TRUE)

RemoveModuleAny == \E id \in {"sail1", "extra"} : RemoveModule(id)

IsPositionOnDeckAny == \E l \in QueryLocals : IsPositionOnDeckQuery(WorldAt(l))

FindSafeDismountPositionQuery(p) ==
    /\ deckQuery' = [ op |-> "findSafeDismountPosition", point |-> p,
                      result |-> FindSafeDismountPosition(p, position, heading, modules,
                                                          moduleVisualPositions) ]
    /\ UNCHANGED << position, modules, moduleVisualPositions, fireVars,
                    worldVars, gameVars, cannonVars, sailVars, rudderVars, windVars,
                    bodyVars >>

\* Ship-local start points of the search: a mast centre, a cannon bay, open
\* deck, just beyond the bow, and out of the search's reach of the hull
DismountLocals ==
    { Point(165, 0), Point(-35, 75), Point(100, 40), Point(420, 0), Point(500, 0) }

FindSafeDismountPositionAny ==
    \E l \in DismountLocals : FindSafeDismountPositionQuery(WorldAt(l))

NextDeck ==
    \/ WorldToShipThenBackAny
    \/ IsPositionOnDeckAny
    \/ FindSafeDismountPositionAny
    \/ DeckAddModule
    \/ RemoveModuleAny

SpecDeck == InitDeck /\ [][NextDeck]_vars

\* C11: converting a world point to ship-local coordinates and back returns
\* the original point, at every ship position and heading.
C11_RoundTrip ==
    deckQuery.op = "worldToShipThenBack" => deckQuery.result = deckQuery.point

\* A round trip made at a heading off the axes, away from the ship's centre,
\* through a local point that differs from the world offset.
C11_Witness ==
    /\ deckQuery.op = "worldToShipThenBack"
    /\ heading.c # 0 /\ heading.s # 0
    /\ deckQuery.point # position
    /\ deckQuery.local # [ x |-> deckQuery.point.x - position.x,
                           y |-> deckQuery.point.y - position.y ]
    /\ deckQuery.result = deckQuery.point

\* The heading turned by theta; exact when the products are whole fifths
Composed(r, theta) ==
    [ c |-> (r.c * theta.c - r.s * theta.s) \div rotDen,
      s |-> (r.s * theta.c + r.c * theta.s) \div rotDen ]

\* The turns that take heading r to another of the exact headings
Turns(r) == { theta \in DeckHeadings : Composed(r, theta) \in DeckHeadings }

\* p turned by theta about the ship's position
RotatedAbout(p, centre, theta) ==
    LET d == Rotated([ x |-> p.x - centre.x, y |-> p.y - centre.y ], theta)
    IN  [ x |-> centre.x + d.x, y |-> centre.y + d.y ]

\* C12: isPositionOnDeck gives the same answer for a point p at heading h and
\* for p turned by theta about the ship's position at heading h + theta, with
\* the same modules mounted.
C12_RotationInvariant ==
    [][ (deckQuery'.op = "isPositionOnDeck" /\ IsPositionOnDeckQuery(deckQuery'.point))
        => \A theta \in Turns(heading) :
               deckQuery'.result
                   = IsPositionOnDeck(RotatedAbout(deckQuery'.point, position, theta),
                                      position, Composed(heading, theta), modules,
                                      moduleVisualPositions) ]_vars

\* A walkable answer at a heading off the axes with an added module mounted,
\* and a turn by a 3-4-5 angle available.
C12_Witness ==
    /\ deckQuery.op = "isPositionOnDeck"
    /\ deckQuery.result
    /\ deckQuery.point # position
    /\ heading.c # 0 /\ heading.s # 0
    /\ "extra" \in DOMAIN modules
    /\ \E theta \in Turns(heading) : theta.c # 0 /\ theta.s # 0

\* C13: the world point at the centre of each mast is not walkable, at every
\* ship position and heading and with any modules mounted.
C13_MastCentreBlocked ==
    \A mast \in MASTS :
        ~IsPositionOnDeck(WorldAt(At(mast)), position, heading, modules,
                          moduleVisualPositions)

\* The front mast's centre queried and refused with its sail removed.
C13_Witness ==
    /\ deckQuery.op = "isPositionOnDeck"
    /\ deckQuery.point = WorldAt(Point(165, 0))
    /\ ~deckQuery.result
    /\ "sail1" \notin DOMAIN modules
    /\ heading.c # 0 /\ heading.s # 0

\* C14: the ship's centre point is walkable in every reachable state.
C14_CentreWalkable ==
    IsPositionOnDeck(position, position, heading, modules, moduleVisualPositions)

\* C15: findSafeDismountPosition returns the start when it is walkable;
\* otherwise the first walkable candidate taking the rings of radius 12, 24,
\* 36, 48, 60 px innermost first and the 8 directions of a ring in order,
\* which lies within 60 px of the start (to the 2/25 px the candidates are
\* rounded to); and the ship's position only when no candidate is walkable.
C15_FirstWalkableCandidate ==
    [][ (deckQuery'.op = "findSafeDismountPosition"
            /\ FindSafeDismountPositionQuery(deckQuery'.point))
        => LET start == deckQuery'.point
               found == deckQuery'.result
               Walkable(q) == IsPositionOnDeck(q, position, heading, modules,
                                               moduleVisualPositions)
               Cand(inc, i) == Candidate(start, position, heading, inc, i)
               Rings == 1 .. 5
               Dirs == 0 .. 7
           IN  IF Walkable(start)
               THEN found = start
               ELSE \/ \E inc \in Rings : \E i \in Dirs :
                         /\ found = Cand(inc, i)
                         /\ Walkable(found)
                         /\ StepDistance(inc) = Px(12 * inc)
                         /\ \A inc2 \in Rings : \A i2 \in Dirs :
                                (inc2 < inc \/ (inc2 = inc /\ i2 < i))
                                    => ~Walkable(Cand(inc2, i2))
                         /\ (found.x - start.x) * (found.x - start.x)
                              + (found.y - start.y) * (found.y - start.y)
                                <= (Px(60) + 2) * (Px(60) + 2)
                    \/ /\ \A inc \in Rings : \A i \in Dirs : ~Walkable(Cand(inc, i))
                       /\ found = position ]_vars

\* A search from a mast centre, the ship heading off the axes, that ended on
\* a ring: neither the start nor the ship's position.
C15_Witness ==
    /\ deckQuery.op = "findSafeDismountPosition"
    /\ deckQuery.point = WorldAt(Point(165, 0))
    /\ deckQuery.result # deckQuery.point
    /\ deckQuery.result # position
    /\ heading.c # 0 /\ heading.s # 0

---------------------------------------------------------------------------
(* Firing: two cannons mounted on the ship, one on each side.              *)

\* Ship.cannons in insertion order, the order forEach visits
FireOrder == << "cannon1", "cannon4" >>

\* Date.now() runs to MaxClock, in units of 500 ms
MaxClock == 6

\* What setGame is called with: the game, a ship with or without a game, null
GameRefs == { "game", "shipWithGame", "ship", "none" }

FireVelocities == { Zero, [ x |-> 3000, y |-> -4000 ] }

CannonSetGame(id, ref) ==
    /\ cannons' = [ cannons EXCEPT ![id].game = GameStored(ref) ]
    /\ UNCHANGED << deckVars, fireVars, worldVars, gameVars,
                    now, sailVars, rudderVars, windVars, bodyVars >>

\* CannonModule.fire(worldX, worldY, shipAngle, shipVelocity) on cannon id
CannonFire(id) ==
    /\ cannons' = [ cannons EXCEPT ![id] = CannonFired(@, now) ]
    /\ cannonballs' =
           IF FireReturns(cannons[id])
           THEN Append(cannonballs, NewCannonball(id, cannons[id], heading, velocity))
           ELSE cannonballs
    /\ fireResult' = [ op |-> "fire", cannon |-> id,
                       returned |-> FireReturns(cannons[id]) ]
    /\ UNCHANGED << deckVars, worldVars, gameVars,
                    now, sailVars, rudderVars, windVars, bodyVars >>

\* The cannonballs after forEach has called fire on the cannons of order
RECURSIVE BallsAfterFiring(_, _, _, _, _)
BallsAfterFiring(balls, cs, order, shipAngle, shipVelocity) ==
    IF order = << >> THEN balls
    ELSE LET id == Head(order)
         IN  BallsAfterFiring(
                 IF FireReturns(cs[id])
                 THEN Append(balls, NewCannonball(id, cs[id], shipAngle, shipVelocity))
                 ELSE balls,
                 cs, Tail(order), shipAngle, shipVelocity)

\* Ship.fireCannon(targetPosition?): fire is called on every cannon, and only
\* when a target position was passed
ShipFireCannon(hasTarget) ==
    /\ cannons' = IF hasTarget
                  THEN [ id \in DOMAIN cannons |-> CannonFired(cannons[id], now) ]
                  ELSE cannons
    /\ cannonballs' = IF hasTarget
                      THEN BallsAfterFiring(cannonballs, cannons, FireOrder,
                                            heading, velocity)
                      ELSE cannonballs
    /\ fireResult' = [ op |-> "fireCannon", target |-> hasTarget ]
    /\ UNCHANGED << deckVars, worldVars, gameVars,
                    now, sailVars, rudderVars, windVars, bodyVars >>

\* Date.now() moves on
ClockTick ==
    /\ now < MaxClock
    /\ now' = now + 1
    /\ UNCHANGED << deckVars, fireVars, worldVars, gameVars,
                    cannons, sailVars, rudderVars, windVars, bodyVars >>

SetGameAny == \E id \in DOMAIN cannons : \E ref \in GameRefs : CannonSetGame(id, ref)
FireAny == \E id \in DOMAIN cannons : CannonFire(id)
ShipFireCannonAny == \E hasTarget \in BOOLEAN : ShipFireCannon(hasTarget)

\* The ship as the Game constructor leaves it: setGame, then cannons mounted
\* with rotation pi on one side and 0 on the other
InitFire ==
    /\ cannons = [ id \in { FireOrder[k] : k \in DOMAIN FireOrder } |->
                      NewCannon(IF id = "cannon1" THEN Pi ELSE 0) ]
    /\ now = 0
    /\ velocity \in FireVelocities
    /\ heading = 0
    /\ SailDefaults /\ RudderDefaults /\ WindDefaults
    /\ DeckDefaults /\ FireDefaults /\ WorldDefaults /\ GameDefaults

NextFire == SetGameAny \/ FireAny \/ ShipFireCannonAny \/ UpdateAny \/ ClockTick

SpecFire == InitFire /\ [][NextFire]_vars

\* C16: CannonModule.fire on a cannon that is not loaded returns false, adds
\* no cannonball and leaves the cannon (isLoaded, lastFiredTime, turretAngle,
\* targetTurretAngle) as it was.
C16_UnloadedFireIsNoOp ==
    [][ \A id \in DOMAIN cannons :
            (CannonFire(id) /\ ~cannons[id].isLoaded)
                => /\ ~fireResult'.returned
                   /\ cannonballs' = cannonballs
                   /\ cannons'[id].isLoaded = cannons[id].isLoaded
                   /\ cannons'[id].lastFiredTime = cannons[id].lastFiredTime
                   /\ cannons'[id].turretAngle = cannons[id].turretAngle
                   /\ cannons'[id].targetTurretAngle = cannons[id].targetTurretAngle ]_vars

\* fire refused on a cannon that has a game and fired earlier: it is still
\* unloaded, its shot is among the cannonballs, and time has moved on since.
C16_Witness ==
    /\ fireResult.op = "fire"
    /\ ~fireResult.returned
    /\ cannons[fireResult.cannon].game = "game"
    /\ ~cannons[fireResult.cannon].isLoaded
    /\ now > cannons[fireResult.cannon].lastFiredTime
    /\ \E k \in DOMAIN cannonballs : cannonballs[k].from = fireResult.cannon

\* C17: firing a loaded cannon whose game reference is missing, or has no
\* addCannonball, adds no cannonball and leaves the cannon as it was, still
\* loaded.
C17_NoCollaboratorIsNoOp ==
    [][ \A id \in DOMAIN cannons :
            (CannonFire(id) /\ cannons[id].isLoaded /\ cannons[id].game # "game")
                => /\ cannonballs' = cannonballs
                   /\ cannons'[id] = cannons[id] ]_vars

\* C18: Ship.fireCannon, with a target or without, fires every loaded cannon
\* that can spawn: the cannon is unloaded afterwards and one cannonball of
\* its own was added; cannons that were not loaded add none.
C18_FireCannonFiresLoaded ==
    [][ \A hasTarget \in BOOLEAN :
            ShipFireCannon(hasTarget)
                => \A id \in DOMAIN cannons :
                       LET Shots(balls) == { k \in DOMAIN balls : balls[k].from = id }
                           added == Cardinality(Shots(cannonballs'))
                                        - Cardinality(Shots(cannonballs))
                       IN  IF cannons[id].isLoaded /\ cannons[id].game = "game"
                           THEN ~cannons'[id].isLoaded /\ added = 1
                           ELSE added = 0 ]_vars

\* C19: after addModule, a module whose position was within the tolerance
\* of a slot of its type (20 px on both axes of a mast or cannon bay, the
\* wheel slot itself) is registered at the slot's exact coordinates and has
\* its visual position there too, given as a typed object or as plain data.
C19_SnappedToSlot ==
    [][ \A typed \in BOOLEAN : \A type \in {"sail", "cannon", "wheel"} :
        \A pos \in { Point(5, 5), Point(-30, 70), Point(100, 40) } :
            AddModule("extra", type, pos, typed)
                => LET slots == IF type = "sail" THEN { At(m) : m \in MASTS }
                                ELSE IF type = "cannon" THEN { At(c) : c \in CANNONS }
                                ELSE { At(WHEEL) }
                       tolerance == IF type = "wheel" THEN 1 ELSE Px(20)
                   IN  \A slot \in slots :
                           (Abs(slot.x - pos.x) < tolerance /\ Abs(slot.y - pos.y) < tolerance)
                               => /\ modules'["extra"].position = slot
                                  /\ GetModuleVisualPosition("extra", modules',
                                                             moduleVisualPositions') = slot ]_vars

---------------------------------------------------------------------------
(* The world's wind cycle: WorldManager.updateWind.  Directions are in     *)
(* units of 1.25 degrees, powers in thousandths, times in milliseconds.    *)

\* const cycleDuration = 5 * 60 * 1000
cycleDuration == 300000

\* The wind power is clamped to 0.5 .. 2.0
minWorldWindPower == 500
maxWorldWindPower == 2000

\* minWindPower for a wind within 30 degrees of east or west
eastWestMinPower == 750

\* The % of the source: the remainder has the sign of the dividend
Remainder(a, n) == IF a >= 0 THEN a % n ELSE -((-a) % n)

\* The two while loops that bring the direction into 0 .. 2 pi
RECURSIVE KeepInTurn(_)
KeepInTurn(d) ==
    IF d < 0 THEN KeepInTurn(d + fullTurn)
    ELSE IF d >= fullTurn THEN KeepInTurn(d - fullTurn)
    ELSE d

\* windDirection after updateWind, elapsedTime after the wind system started
WorldWindDirection(elapsedTime) ==
    KeepInTurn(MulDiv(Remainder(elapsedTime, cycleDuration), fullTurn, cycleDuration))

\* 1 - northSouthAxis / (pi / 2), in thousandths.  Both remainders are
\* d - pi for d beyond pi, so the alignment falls below 0 there.
NorthSouthAlignment(d) ==
    LET halfTurn == 2 * quarterTurn
        northSouthAxis == Min(Abs(Remainder(d, halfTurn)),
                              Abs(Remainder(d - halfTurn, halfTurn)))
    IN  1000 - (1000 * northSouthAxis) \div quarterTurn

IsEastWestWind(d) ==
    \/ Abs(d - quarterTurn) < quarterTurn \div 3
    \/ Abs(d - 3 * quarterTurn) < quarterTurn \div 3

\* A mutant of ClampedWindPower: the power is left as computed.
UnclampedWindPower(p) == p

ClampedWindPower(p) == Max(minWorldWindPower, Min(maxWorldWindPower, p))

\* minWindPower + northSouthAlignment * (2.0 - minWindPower)
WindPowerBeforeJitter(d) ==
    LET minWindPower == IF IsEastWestWind(d) THEN eastWestMinPower ELSE minWorldWindPower
    IN  minWindPower
            + RoundDiv(NorthSouthAlignment(d) * (maxWorldWindPower - minWindPower), 1000)

\* windPower after updateWind for direction d; jitter is
\* (Math.random() - 0.5) * 0.1 in thousandths
WorldWindPower(d, jitter) == ClampedWindPower(WindPowerBeforeJitter(d) + jitter)

\* Elapsed times tried: every 48th of a cycle from MaxCyclesBack cycles
\* before the start of the wind system (a clock set back) to MaxCyclesAhead
\* cycles after it, and the millisecond before each
MaxCyclesBack == 1
MaxCyclesAhead == 2
ElapsedTimes ==
    { k * (cycleDuration \div 48) - e :
          k \in -(48 * MaxCyclesBack) .. 48 * MaxCyclesAhead, e \in {0, 1} }

\* (Math.random() - 0.5) * 0.1 lies in -0.05 .. 0.05
Jitters == { -50, -25, 0, 25, 49 }

\* WorldManager.updateWind()
UpdateWind(elapsedTime, jitter) ==
    /\ worldWindDirection' = WorldWindDirection(elapsedTime)
    /\ worldWindPower' = WorldWindPower(WorldWindDirection(elapsedTime), jitter)
    /\ UNCHANGED << deckVars, fireVars, gameVars, cannonVars, sailVars,
                    rudderVars, windVars, bodyVars >>

UpdateWindAny == \E e \in ElapsedTimes : \E j \in Jitters : UpdateWind(e, j)

\* setupWind: a random direction and power 1.0
InitWorld ==
    /\ worldWindDirection \in { 0, quarterTurn + 5, fullTurn - 1 }
    /\ worldWindPower = 1000
    /\ cannons = [ id \in CannonIds |-> NewCannon(0) ]
    /\ now = 0
    /\ SailDefaults /\ RudderDefaults /\ WindDefaults /\ BodyDefaults
    /\ DeckDefaults /\ FireDefaults /\ GameDefaults

NextWorld == UpdateWindAny

SpecWorld == InitWorld /\ [][NextWorld]_vars

\* C20: after every updateWind call the wind direction lies in [0, 2 pi) and
\* the wind power in [0.5, 2.0], whatever the elapsed time and the jitter.
C20_WindInRange ==
    /\ 0 <= worldWindDirection /\ worldWindDirection < fullTurn
    /\ minWorldWindPower <= worldWindPower
    /\ worldWindPower <= maxWorldWindPower

\* The last unit of direction before the cycle starts again, where the
\* alignment computed is negative and the power is held at the minimum by
\* the clamp.
C20_Witness ==
    /\ worldWindDirection = fullTurn - 1
    /\ worldWindPower = minWorldWindPower
    /\ NorthSouthAlignment(worldWindDirection) < 0

\* C21: before jitter the wind power is floor + (1 - a / 90 degrees) *
\* (2.0 - floor), a the angular distance of the direction from the
\* north-south axis (0 and pi, so also for directions just below 2 pi), and
\* floor 0.75 within 30 degrees of due east or west and 0.5 otherwise; so in
\* that band it is never below 0.75.
C21_PowerFollowsAxisDistance ==
    LET d == worldWindDirection
        halfTurn == 2 * quarterTurn
        a == Min(d % halfTurn, halfTurn - (d % halfTurn))
        inBand == \/ Abs(d - quarterTurn) < quarterTurn \div 3
                  \/ Abs(d - 3 * quarterTurn) < quarterTurn \div 3
        floor == IF inBand THEN eastWestMinPower ELSE minWorldWindPower
    IN  /\ WindPowerBeforeJitter(d)
              = floor + RoundDiv((1000 - (1000 * a) \div quarterTurn)
                                     * (maxWorldWindPower - floor), 1000)
        /\ inBand => WindPowerBeforeJitter(d) >= eastWestMinPower

\* C22: for the ship-local points tested, the boundary check used without a
\* drawing context and exact containment in the closed hull path give the
\* same answer: for every point queried, and for every point a dismount
\* search returns.
C22_BoundsAgreeWithHullPath ==
    LET Agree(p) ==
            LET rotated == WorldToShipCoordinates(p, position, heading)
            IN  InHullBounds(rotated) = IsPointInHullPath(rotated)
    IN  /\ deckQuery.op \in {"isPositionOnDeck", "findSafeDismountPosition"}
              => Agree(deckQuery.point)
        /\ deckQuery.op = "findSafeDismountPosition" => Agree(deckQuery.result)

\* C23: a successful firing leaves the cannon unloaded; while it is unloaded
\* no step adds a cannonball of its own; the flag comes back only in a step
\* taken more than reloadTime after the firing; so a cannon that fired before
\* fires again only more than reloadTime later.
C23_CooldownBetweenFirings ==
    [][ \A id \in DOMAIN cannons :
            LET Shots(balls) == { k \in DOMAIN balls : balls[k].from = id }
            IN  /\ (CannonFire(id) /\ FireReturns(cannons[id]))
                      => /\ ~cannons'[id].isLoaded
                         /\ cannons'[id].lastFiredTime = now
                /\ ~cannons[id].isLoaded
                      => Cardinality(Shots(cannonballs')) = Cardinality(Shots(cannonballs))
                /\ (~cannons[id].isLoaded /\ cannons'[id].isLoaded)
                      => now - cannons[id].lastFiredTime > reloadTime
                /\ (Cardinality(Shots(cannonballs')) > Cardinality(Shots(cannonballs))
                        /\ Shots(cannonballs) # {})
                      => now - cannons[id].lastFiredTime > reloadTime ]_vars

\* A cannon that has fired twice: two cannonballs of its own, the second
\* fired more than reloadTime after the clock started.
C23_Witness ==
    \E id \in DOMAIN cannons :
        /\ Cardinality({ k \in DOMAIN cannonballs : cannonballs[k].from = id }) = 2
        /\ ~cannons[id].isLoaded
        /\ cannons[id].lastFiredTime > reloadTime

\* C24: whether update() reloads a fired cannon depends on the updates
\* executed, not on the clock: the same update on the same cannon gives the
\* same loaded flag at every clock reading.
C24_ReloadIndependentOfClock ==
    [][ \A id \in DOMAIN cannons :
            (CannonUpdate(id) /\ ~cannons[id].isLoaded)
                => \A t \in 0 .. MaxClock :
                       CannonUpdated(cannons[id], t).isLoaded = cannons'[id].isLoaded ]_vars

\* C26: the velocity Ship.update leaves is the same for two ships that differ
\* only in isRotatingSails: the tick gives the velocity it would have given
\* with the flag the other way.
C26_RotationFlagIrrelevant ==
    [][ GameUpdate(worldWindDirection', worldWindPower' \div 100)
        => velocity' = VelocityAfterUpdate(sails,
                                           VelocityAfterWind(sails, velocity, momentum),
                                           ~isRotatingSails) ]_vars

---------------------------------------------------------------------------
(* The drag of applyWindForce over the whole range of sail openness and    *)
(* momentum.                                                               *)

\* Speeds above this are not followed further
MaxDragSpeed == 6000

\* Average sail openness, in percent, and momentum, in hundredths
DragOpenness == { 0, 25, 50, 75, 100 }
DragMomenta == { 0, 20, 40, 60, 80, 100 }

\* applyWindForce on a ship within the speeds followed
DragApplyWindForce ==
    /\ Abs(velocity.x) <= MaxDragSpeed /\ Abs(velocity.y) <= MaxDragSpeed
    /\ \E wd \in {0, quarterTurn} : ApplyWindForce(wd, 10)

InitDrag ==
    /\ \E o \in DragOpenness : sails = [ id \in SailIds |-> [ openness |-> o, angle |-> 0 ] ]
    /\ isRotatingSails = FALSE
    /\ sailRotationTimer = 0
    /\ momentum \in DragMomenta
    /\ rudderAngle = 0 /\ wheelAngle = 0 /\ turningForce = 0 /\ torqueApplied = FALSE
    /\ velocity \in { [ x |-> 1000, y |-> 0 ], [ x |-> 3000, y |-> -4000 ] }
    /\ heading = 0
    /\ CannonDefaults /\ WindDefaults
    /\ DeckDefaults /\ FireDefaults /\ WorldDefaults /\ GameDefaults

NextDrag == DragApplyWindForce

SpecDrag == InitDrag /\ [][NextDrag]_vars

\* C28: the multiplier applyWindForce applies to the velocity is above 0 and
\* at most 1, so neither velocity component grows.
C28_DragNeverSpeedsUp ==
    [][ ApplyWindForce(currentWindDirection', currentWindPower')
        => /\ WindDragFactor(sails, momentum) > 0
           /\ WindDragFactor(sails, momentum) <= dragOne
           /\ Abs(velocity'.x) <= Abs(velocity.x)
           /\ Abs(velocity'.y) <= Abs(velocity.y) ]_vars


\* C27: the typed collections hold exactly the modules of their type that
\* are in the general modules map: nothing removed stays in them, and an id
\* added again with another type is in one typed collection only.
C27_TypedCollectionsMatchModules ==
    /\ DOMAIN cannons = { id \in DOMAIN modules : modules[id].type = "cannon" }
    /\ DOMAIN sails = { id \in DOMAIN modules : modules[id].type = "sail" }

---------------------------------------------------------------------------
(* Mounting: a ship just built, given its game and its cannons in either   *)
(* order, and the cannons fired.                                           *)

\* Ship.setGame(game)
ShipSetGame(ref) ==
    /\ shipGame' = ref
    /\ UNCHANGED << player, callOrder, deckVars, fireVars, worldVars, cannonVars,
                    sailVars, rudderVars, windVars, bodyVars >>

ShipSetGameAny == \E ref \in {"game", "none"} : ShipSetGame(ref)

\* ship.addModule(id, new CannonModule(...)) for two of the cannons
MountCannon ==
    \/ AddModule("cannon1", "cannon", Point(-35, 75), TRUE)
    \/ AddModule("cannon4", "cannon", Point(-35, -75), TRUE)

\* new Ship(...): no game, no modules
InitMount ==
    /\ shipGame = "none"
    /\ player = PlayerStart
    /\ callOrder = << >>
    /\ cannons = << >>
    /\ now = 0
    /\ position = ShipStart
    /\ heading = 0
    /\ velocity = Zero
    /\ modules = << >>
    /\ moduleVisualPositions = << >>
    /\ deckQuery = NoQuery
    /\ sails = << >>
    /\ isRotatingSails = FALSE
    /\ sailRotationTimer = 0
    /\ RudderDefaults /\ WindDefaults /\ FireDefaults /\ WorldDefaults

\* Cannonballs in flight beyond this number are not followed
MaxMountBalls == 2

\* CannonModule.fire while the cannonballs are few enough to follow
MountFire == Len(cannonballs) < MaxMountBalls /\ FireAny

NextMount == ShipSetGameAny \/ MountCannon \/ MountFire \/ UpdateAny \/ ClockTick

SpecMount == InitMount /\ [][NextMount]_vars

\* C29: once the ship has its game and a cannon is mounted, in whichever
\* order the two were done, firing the loaded cannon returns true and adds a
\* cannonball to the game.
C29_MountedCannonFires ==
    [][ (/\ fireResult'.op = "fire"
         /\ CannonFire(fireResult'.cannon)
         /\ cannons[fireResult'.cannon].isLoaded
         /\ shipGame = "game")
        => /\ fireResult'.returned
           /\ Len(cannonballs') = Len(cannonballs) + 1 ]_vars

---------------------------------------------------------------------------
(* Game: the player boarding, taking and leaving the wheel, and the whole  *)
(* of Game.update with the player carried by the ship.                     *)

\* The wheel in the ship's coordinate system, as Game places the helmsman
wheelLocal == Point(-90, 0)

\* Math.sqrt(dx * dx + dy * dy) rounded down to the deck unit
Length(d) ==
    LET a == Max(Abs(d.x), Abs(d.y))
        b == Min(Abs(d.x), Abs(d.y))
    IN  CHOOSE r \in a .. a + b :
            r * r <= d.x * d.x + d.y * d.y /\ d.x * d.x + d.y * d.y < (r + 1) * (r + 1)

Offset(p, q) == [ x |-> p.x - q.x, y |-> p.y - q.y ]

\* togglePlayerOnShip, leaving: the point 0.75 * max(width, height) = 337.5 px
\* from the ship's position along the player's ship-local direction
LeavingPosition(p, shipPosition, r) ==
    LET local == WorldToShipCoordinates(p, shipPosition, r)
        length == Length(local)
    IN  IF length > 0
        THEN [ x |-> shipPosition.x + RoundDiv(local.x * 16875, 2 * length),
               y |-> shipPosition.y + RoundDiv(local.y * 16875, 2 * length) ]
        ELSE [ x |-> shipPosition.x + 8438, y |-> shipPosition.y ]

\* togglePlayerOnShip, boarding: 0.8 of the half width (180 px) and of the
\* half height (72 px) along the direction from the ship to the player, then
\* the safe position found from there
BoardingPosition(p, shipPosition, r, mods, visual) ==
    LET d == Offset(p, shipPosition)
        distance == Length(d)
        boarding == [ x |-> shipPosition.x + RoundDiv(d.x * Px(180), distance),
                      y |-> shipPosition.y + RoundDiv(d.y * Px(72), distance) ]
    IN  FindSafeDismountPosition(boarding, shipPosition, r, mods, visual)

\* distance < limit, for an offset d
Nearer(d, limit) == d.x * d.x + d.y * d.y < limit * limit

\* A mutant of PlayerFollowed: the player is put at the carried position
\* without asking whether it is on deck.
PlayerFollowedUnchecked(pl, local, shipPosition, r, mods, visual) ==
    ShipToWorldCoordinates(local, shipPosition, r)

\* Game.update, "Update player position based on their location on the
\* ship": the stored local position taken back to the world; at the wheel
\* used as it is, on deck used when walkable, else replaced by the safe
\* position found from where the player was
PlayerFollowed(pl, local, shipPosition, r, mods, visual) ==
    LET worldCoords == ShipToWorldCoordinates(local, shipPosition, r)
    IN  IF pl.atWheel THEN worldCoords
        ELSE IF IsPositionOnDeck(worldCoords, shipPosition, r, mods, visual)
             THEN worldCoords
             ELSE FindSafeDismountPosition(pl.position, shipPosition, r, mods, visual)

\* handlePlayerMovement on deck: the whole step when it is walkable, else
\* the x part and then the y part, each when walkable
DeckMoved(p, move, shipPosition, r, mods, visual) ==
    LET OnDeck(q) == IsPositionOnDeck(q, shipPosition, r, mods, visual)
        whole == [ x |-> p.x + move.x, y |-> p.y + move.y ]
        afterX == IF OnDeck([ x |-> p.x + move.x, y |-> p.y ])
                  THEN [ x |-> p.x + move.x, y |-> p.y ] ELSE p
        afterY == IF OnDeck([ x |-> afterX.x, y |-> afterX.y + move.y ])
                  THEN [ x |-> afterX.x, y |-> afterX.y + move.y ] ELSE afterX
    IN  IF move = Zero THEN p
        ELSE IF OnDeck(whole) THEN whole
        ELSE afterY

\* The calls of one Game.update that the order of a tick is about
TickCalls(pl, local, shipPosition, r, mods, visual, key, move) ==
    << "updateWind", "applyWindForce", "updateModules" >>
        \o (IF pl.onShip /\ ~pl.atWheel
            THEN << "isPositionOnDeck" >>
                     \o (IF IsPositionOnDeck(ShipToWorldCoordinates(local, shipPosition, r),
                                             shipPosition, r, mods, visual)
                         THEN << >> ELSE << "findSafeDismountPosition" >>)
                     \o (IF move = Zero THEN << >> ELSE << "isPositionOnDeck" >>)
            ELSE << >>)
        \o (IF pl.onShip /\ pl.atWheel /\ key \in Directions
            THEN << "applyRudder" >> ELSE << >>)

\* Ticks followed
MaxTicks == 3

\* Headings Matter.Engine.update leaves the ship at
GameHeadings == { [ c |-> 5, s |-> 0 ], [ c |-> 4, s |-> 3 ], [ c |-> 0, s |-> 5 ] }

\* Steps of moveSpeed = 5 px: none, and along three directions
PlayerMoves == { Zero, Point(5, 0), Point(0, 5), Point(-4, -3) }

\* The A and D keys at the wheel: one, neither, or both (no applyRudder call)
WheelKeys == Directions \cup { "both" }

\* velocity is in thousandths of a pixel per tick, positions in 25ths of a
\* pixel
Displaced(p, v) == [ x |-> p.x + v.x \div 40, y |-> p.y + v.y \div 40 ]

\* Game.update(): world.update() steps the physics engine, which moves and
\* turns the ship's body, and updates the wind; the player's ship-local
\* position is stored; applyWindForce; Ship.update with its module updates;
\* the player is carried; handlePlayerMovement, which is where applyRudder
\* is called.  The sails are closed.  A frame takes one unit of the clock.
GameTick(newHeading, windDirection, windPower, key, move) ==
    LET newPosition == Displaced(position, velocity)
        local == IF player.atWheel THEN wheelLocal
                 ELSE WorldToShipCoordinates(player.position, position, newHeading)
        v1 == VelocityAfterWind(sails, velocity, momentum)
        m1 == MomentumAfterWind(sails, velocity, momentum)
        v2 == VelocityAfterUpdate(sails, v1, isRotatingSails)
        m2 == MomentumAfterUpdate(sails, v1, m1, isRotatingSails)
        followed == IF player.onShip
                    THEN PlayerFollowed(player, local, newPosition, newHeading,
                                        modules, moduleVisualPositions)
                    ELSE player.position
        steering == player.onShip /\ player.atWheel /\ key \in Directions
        currentSpeed == Speed(v2)
        m3 == MomentumAfter(m2, currentSpeed)
        r3 == RudderMoved(rudderAngle, key, RudderChangeRate(currentSpeed))
        moved == IF ~player.onShip
                 THEN [ x |-> followed.x + move.x, y |-> followed.y + move.y ]
                 ELSE IF player.atWheel
                      THEN ShipToWorldCoordinates(wheelLocal, newPosition, newHeading)
                      ELSE DeckMoved(followed, move, newPosition, newHeading,
                                     modules, moduleVisualPositions)
    IN  /\ now < MaxTicks
        /\ now' = now + 1
        /\ OpenSailIds(sails) = {}
        /\ position' = newPosition
        /\ heading' = newHeading
        /\ worldWindDirection' = windDirection
        /\ worldWindPower' = 100 * windPower
        /\ WindForceOutputs(windDirection, windPower)
        /\ velocity' = v2
        /\ IF isRotatingSails
           THEN /\ sailRotationTimer' = sailRotationTimer - 1
                /\ isRotatingSails' = ~(sailRotationTimer - 1 <= 0)
           ELSE UNCHANGED << isRotatingSails, sailRotationTimer >>
        /\ cannons' = [ id \in DOMAIN cannons |-> CannonUpdated(cannons[id], now) ]
        /\ IF steering
           THEN /\ momentum' = m3
                /\ rudderAngle' = r3
                /\ wheelAngle' = WheelAngleSet(r3)
                /\ turningForce' = TurningForce(r3, currentSpeed, m3, sails)
                /\ torqueApplied' = (currentSpeed > 50 \/ OpenSailIds(sails) # {})
           ELSE /\ momentum' = m2
                /\ UNCHANGED << rudderAngle, wheelAngle, turningForce, torqueApplied >>
        /\ player' = [ player EXCEPT !.position = moved ]
        /\ callOrder' = TickCalls(player, local, newPosition, newHeading, modules,
                                  moduleVisualPositions, key, move)
        /\ UNCHANGED << modules, moduleVisualPositions, deckQuery, fireVars, sails,
                        shipGame >>

GameTickAny ==
    \E h \in GameHeadings : \E key \in WheelKeys : \E move \in PlayerMoves :
        /\ player.atWheel \/ key = "both"
        /\ (player.atWheel /\ player.onShip) => move = Zero
        /\ GameTick(h, 0, 10, key, move)

\* togglePlayerOnShip(): leave the ship, or board it from less than 200 px
TogglePlayerOnShip ==
    /\ player' =
           IF player.onShip
           THEN [ position |-> LeavingPosition(player.position, position, heading),
                  onShip |-> FALSE, atWheel |-> FALSE ]
           ELSE IF Nearer(Offset(player.position, position), Px(200))
                THEN [ position |-> BoardingPosition(player.position, position, heading,
                                                     modules, moduleVisualPositions),
                       onShip |-> TRUE, atWheel |-> FALSE ]
                ELSE player
    /\ UNCHANGED << callOrder, shipGame, deckVars, fireVars, worldVars, cannonVars,
                    sailVars, rudderVars, windVars, bodyVars >>

\* togglePlayerAtWheel(): leave the wheel, or take it from less than 50 px of
\* the point 90 px left of the ship's position
TogglePlayerAtWheel ==
    LET wheelAt == [ x |-> position.x - Px(90), y |-> position.y ]
    IN  /\ player.onShip
        /\ player' =
               IF player.atWheel THEN [ player EXCEPT !.atWheel = FALSE ]
               ELSE IF Nearer(Offset(player.position, wheelAt), Px(50))
                    THEN [ player EXCEPT !.atWheel = TRUE, !.position = wheelAt ]
                    ELSE player
        /\ UNCHANGED << callOrder, shipGame, deckVars, fireVars, worldVars, cannonVars,
                        sailVars, rudderVars, windVars, bodyVars >>

\* The player as constructed, off the ship, or on deck beside the wheel
GamePlayers(shipPosition, r) ==
    { PlayerStart,
      [ position |-> ShipToWorldCoordinates(Point(-90, 40), shipPosition, r),
        onShip |-> TRUE, atWheel |-> FALSE ] }

\* The game as constructed or with the player aboard, the ship at rest or
\* under way at one of the headings
InitGame ==
    /\ position = ShipStart
    /\ heading \in GameHeadings
    /\ velocity \in { Zero, [ x |-> 4000, y |-> 0 ] }
    /\ modules = InitialShipModules
    /\ moduleVisualPositions = << >>
    /\ deckQuery = NoQuery
    /\ cannons = ShipCannons /\ now = 0
    /\ SailDefaults /\ RudderDefaults /\ WindDefaults
    /\ FireDefaults /\ WorldDefaults
    /\ player \in GamePlayers(position, heading)
    /\ callOrder = << >>
    /\ shipGame = "game"

NextGame == GameTickAny \/ TogglePlayerOnShip \/ TogglePlayerAtWheel

SpecGame == InitGame /\ [][NextGame]_vars


\* C25: the calls of every Game.update come in the order wind update, then
\* force computation and application (applyWindForce, applyRudder), then the
\* module updates, then the deck-walkability queries.
C25_TickOrder ==
    LET Stage(call) ==
            CASE call = "updateWind" -> 1
              [] call \in {"applyWindForce", "applyRudder"} -> 2
              [] call = "updateModules" -> 3
              [] call \in {"isPositionOnDeck", "findSafeDismountPosition"} -> 4
    IN  \A i \in DOMAIN callOrder : \A j \in DOMAIN callOrder :
            i < j => Stage(callOrder[i]) <= Stage(callOrder[j])

\* C30: at the end of every Game.update that leaves the player on the ship
\* and not at the wheel, the player's position is walkable.
C30_PlayerOnDeckAfterTick ==
    [][ (now' = now + 1 /\ player'.onShip /\ ~player'.atWheel)
        => IsPositionOnDeck(player'.position, position', heading', modules',
                            moduleVisualPositions') ]_vars

\* A tick has ended with the player on deck at a safe position found for
\* them, the carried position having been off the deck.
C30_Witness ==
    /\ player.onShip /\ ~player.atWheel
    /\ Len(callOrder) >= 5
    /\ callOrder[5] = "findSafeDismountPosition"
    /\ IsPositionOnDeck(player.position, position, heading, modules,
                        moduleVisualPositions)

=============================================================================
